---- MODULE Spec2Model ----
(***************************************************************************)
(* Model of the campaign health monitor (pearmediallc/domain-campaign-     *)
(* check): the scheduling state machine (app/scheduler.py, app/storage.py),*)
(* the manual triggers (app/web.py, app/telegram_bot.py), the health       *)
(* checker and its callers (app/checker.py, app/run_check.py), the         *)
(* notification batcher (app/telegram.py), the persisted files             *)
(* (app/storage.py, app/results_store.py) and the gateway client           *)
(* (app/redtrack.py).                                                      *)
(*                                                                         *)
(* Time is the integer epoch second the program reads with                 *)
(* int(time.time()).  Optional values are sequences: <<>> is None and      *)
(* <<v>> is the value v.  Strings that the code parses are sequences of    *)
(* one-character strings.                                                  *)
(***************************************************************************)
EXTENDS Integers, Sequences, FiniteSets, TLC

VARIABLES
    now,        \* the wall clock, epoch seconds
    advances,   \* how many times the clock has advanced (bounded)
    disk,       \* the persisted config file: NoFile or File(AppConfig)
    job,        \* the scheduler's _job thread: pc, loaded cfg, decision time
    hist,       \* history: decision times of the last two scheduled runs
    isRunning,  \* web._is_running
    webSpawned, \* _run_once threads started that have not yet set _is_running
    webRunning, \* _run_once threads past "_is_running = True", in run_full_check
    checkRunning, \* TelegramBot._check_running
    tgSpawned,  \* _run_check_in_background threads started, flag not yet set
    tgRunning,  \* _run_check_in_background threads in run_full_check
    triggers,   \* manual triggers received so far (bounded)
    decision,   \* what a call of should_run_now returned, "pending" before it
    httpIn,     \* what the GET of an http_check call meets
    httpOut,    \* the UrlCheck that call returned, None before it
    targets,    \* run_full_check: urls_to_check of the campaign being checked
    ti,         \* index of the check target the loop is at
    cpc,        \* "target" (loop head), "http" (retry loop), "append", "done"
    attempt,    \* http_check calls made for the current target
    best,       \* run_full_check's best: None or the last http_check result
    checks,     \* the campaign's checks list
    dnsCalls,   \* history: dns_check calls made for the target last handled
    dnsResult,  \* history: "none", "skipped", "ok" or "fail" for that target
    attemptLog, \* history: the http_check results for that target, in order
    caller,     \* who runs run_full_check: "none", "scheduled", "web", "telegram", "cli"
    rpc,        \* where the run and its caller stand
    gateway,    \* what the RedTrack account holds: campaigns, report rows
    campaigns,  \* run_full_check: campaigns, as list_active_campaigns returned it
    reportRows, \* run_full_check: report_rows
    activeMap,  \* run_full_check: active_map, a function from campaign id
    ci,         \* index of the campaign the loop "for c in campaigns" is at
    cur,        \* the campaign in hand: meta, domain_name, landing_urls
    domainCache,  \* run_full_check: domain_cache
    landingCache, \* run_full_check: landing_cache
    results,    \* run_full_check: results
    calls,      \* history: the gateway calls made, in order
    sends,      \* history: the send_message calls made, in order
    runs,       \* the run history file (results_store)
    db,         \* the CheckResult rows run_check.main stored
    batch,      \* a call of send_many: its arguments, locals and messages sent
    appended,   \* history: how many append_run calls have been made
    store,      \* a persisted file, its .tmp file and the threads using them
    req,        \* a call of RedTrackClient._get: responses met, requests made
    extraction, \* a call of extract_urls_from_campaign: document and outcome
    editor,     \* a call of web.update_config: pc and the cfg it loaded
    appenders   \* the threads inside results_store.append_run: pc, record, doc

schedVars == <<now, advances, disk, job, hist>>

manualVars == <<isRunning, webSpawned, webRunning, checkRunning, tgSpawned,
                tgRunning, triggers>>

\* the state of the specifications of single functions
checkVars == <<targets, ti, cpc, attempt, best, checks, dnsCalls, dnsResult,
               attemptLog>>

\* the state of a run of run_full_check and of its caller
runVars == <<caller, rpc, gateway, campaigns, reportRows, activeMap, ci, cur,
             domainCache, landingCache, results, calls, sends, runs, db>>

\* the state of the batcher, the stores, the gateway client and the extractor
\* the state of the calls that run beside a tick or beside each other
raceVars == <<editor, appenders>>

unitVars == <<batch, appended, store, req, extraction, raceVars>>

pureVars == <<decision, httpIn, httpOut, unitVars, checkVars, runVars>>

vars == <<schedVars, manualVars, pureVars>>

(***************************************************************************)
(* Bounds                                                                  *)
(***************************************************************************)
MaxAdvances == 5

MaxElapse == 2

MaxTriggers == 3

MaxWait == 1

(***************************************************************************)
(* Optional values                                                         *)
(***************************************************************************)
None == <<>>

Some(v) == <<v>>

(***************************************************************************)
(* Local time: config.TIMEZONE defaults to Asia/Calcutta, UTC+05:30, which *)
(* has no daylight saving.                                                 *)
(***************************************************************************)
TzOffsetSeconds == 19800

\* now.date() of dt.datetime.now(tz): the local calendar day, as a day number
LocalDate(t) == (t + TzOffsetSeconds) \div 86400

\* the local wall-clock second of the day (hour*3600 + minute*60 + second)
SecOfDay(t) == (t + TzOffsetSeconds) % 86400

\* the epoch second of local day d, second-of-day s
LocalToEpoch(d, s) == d * 86400 + s - TzOffsetSeconds

(***************************************************************************)
(* Parsing of run_at_hhmm (storage.should_run_now)                         *)
(***************************************************************************)
Digits == <<"0", "1", "2", "3", "4", "5", "6", "7", "8", "9">>

IsDigit(c) == \E i \in 1..10 : Digits[i] = c

DigitVal(c) == (CHOOSE i \in 1..10 : Digits[i] = c) - 1

\* str.strip(): drop leading and trailing whitespace
RECURSIVE LStrip(_)
LStrip(s) == IF s # <<>> /\ Head(s) = " " THEN LStrip(Tail(s)) ELSE s

RECURSIVE RStrip(_)
RStrip(s) ==
    IF s # <<>> /\ s[Len(s)] = " " THEN RStrip(SubSeq(s, 1, Len(s) - 1)) ELSE s

Strip(s) == RStrip(LStrip(s))

\* index of the first ":" of s, 0 when there is none
FirstColon(s) ==
    IF \E i \in 1..Len(s) : s[i] = ":"
    THEN CHOOSE i \in 1..Len(s) : s[i] = ":" /\ \A j \in 1..(i - 1) : s[j] # ":"
    ELSE 0

\* s.split(":", 1): one part without a colon, else the text before and after
\* the first colon
Split1(s) ==
    IF FirstColon(s) = 0
    THEN <<s>>
    ELSE <<SubSeq(s, 1, FirstColon(s) - 1), SubSeq(s, FirstColon(s) + 1, Len(s))>>

RECURSIVE DigitsValue(_)
DigitsValue(s) ==
    IF s = <<>> THEN 0
    ELSE DigitsValue(SubSeq(s, 1, Len(s) - 1)) * 10 + DigitVal(s[Len(s)])

\* int(x): surrounding whitespace is ignored, one optional sign, then one or
\* more digits; anything else raises ValueError (None here)
ParseInt(x) ==
    LET s == Strip(x)
        signed == s # <<>> /\ Head(s) \in {"-", "+"}
        body == IF signed THEN Tail(s) ELSE s
    IN  IF body = <<>> \/ \E i \in 1..Len(body) : ~IsDigit(body[i])
        THEN None
        ELSE Some(IF signed /\ Head(s) = "-"
                  THEN 0 - DigitsValue(body)
                  ELSE DigitsValue(body))

\* hh, mm = [int(x) for x in hhmm.split(":", 1)], falling back to 17, 0 when
\* the split does not give two parts or a part is no integer
ParseHHMM(run_at_hhmm) ==
    LET raw == IF run_at_hhmm = <<>> THEN <<"1", "7", ":", "0", "0">> ELSE run_at_hhmm
        parts == Split1(Strip(raw))
    IN  IF Len(parts) = 2 /\ ParseInt(parts[1]) # None /\ ParseInt(parts[2]) # None
        THEN <<ParseInt(parts[1])[1], ParseInt(parts[2])[1]>>
        ELSE <<17, 0>>

(***************************************************************************)
(* The persisted configuration (storage.AppConfig)                         *)
(***************************************************************************)
\* the config file: NoFile when it does not exist, else File(cfg)
NoFile == <<>>

File(cfg) == <<cfg>>

AppConfig(mode, interval, hhmm, epoch, date) ==
    [schedule_mode |-> mode, interval_minutes |-> interval, run_at_hhmm |-> hhmm,
     last_run_epoch |-> epoch, last_run_local_date |-> date]

DefaultConfig ==
    AppConfig("daily_at", 24 * 60, <<"1", "7", ":", "0", "0">>, None, None)

\* load_config: the defaults when the file does not exist
LoadConfig(file) == IF file = NoFile THEN DefaultConfig ELSE file[1]

\* (cfg.schedule_mode or "interval").lower()
ModeOf(cfg) ==
    CASE cfg.schedule_mode = "" -> "interval"
      [] cfg.schedule_mode = "Interval" -> "interval"
      [] cfg.schedule_mode = "DAILY_AT" -> "daily_at"
      [] OTHER -> cfg.schedule_mode

\* ShouldRunNow with a fault: the interval comparison is strict
ShouldRunNowStrict(cfg, t) ==
    IF ModeOf(cfg) = "interval"
    THEN IF cfg.last_run_epoch = None THEN "due"
         ELSE IF t - cfg.last_run_epoch[1] > cfg.interval_minutes * 60
              THEN "due" ELSE "not_due"
    ELSE IF cfg.last_run_local_date = Some(LocalDate(t)) THEN "not_due"
         ELSE LET hm == ParseHHMM(cfg.run_at_hhmm)
              IN  IF hm[1] \notin 0..23 \/ hm[2] \notin 0..59 THEN "raise"
                  ELSE IF SecOfDay(t) >= hm[1] * 3600 + hm[2] * 60
                       THEN "due" ELSE "not_due"

\* ShouldRunNow with a fault: daily_at without the "already ran today" guard
ShouldRunNowNoDateGuard(cfg, t) ==
    IF ModeOf(cfg) = "interval"
    THEN IF cfg.last_run_epoch = None THEN "due"
         ELSE IF t - cfg.last_run_epoch[1] >= cfg.interval_minutes * 60
              THEN "due" ELSE "not_due"
    ELSE LET hm == ParseHHMM(cfg.run_at_hhmm)
         IN  IF hm[1] \notin 0..23 \/ hm[2] \notin 0..59 THEN "raise"
             ELSE IF SecOfDay(t) >= hm[1] * 3600 + hm[2] * 60
                  THEN "due" ELSE "not_due"

\* should_run_now(cfg) read at clock t: "due", "not_due", or "raise" when
\* now.replace(hour=hh, minute=mm) is given an hour or minute out of range
ShouldRunNow(cfg, t) ==
    IF ModeOf(cfg) = "interval"
    THEN IF cfg.last_run_epoch = None THEN "due"
         ELSE IF t - cfg.last_run_epoch[1] >= cfg.interval_minutes * 60
              THEN "due" ELSE "not_due"
    ELSE IF cfg.last_run_local_date = Some(LocalDate(t)) THEN "not_due"
         ELSE LET hm == ParseHHMM(cfg.run_at_hhmm)
              IN  IF hm[1] \notin 0..23 \/ hm[2] \notin 0..59 THEN "raise"
                  ELSE IF SecOfDay(t) >= hm[1] * 3600 + hm[2] * 60
                       THEN "due" ELSE "not_due"

\* no call of send_many, append_run, save_*, _get or the extractor is under way
Idle == [pc |-> "idle"]

\* no call of update_config is under way and no thread is in append_run
IdleRace ==
    /\ editor = Idle
    /\ appenders = <<>>

IdleUnit ==
    /\ batch = Idle
    /\ appended = 0
    /\ IdleRace
    /\ store = Idle
    /\ req = Idle
    /\ extraction = Idle

(***************************************************************************)
(* The clock                                                               *)
(***************************************************************************)
\* the clock may move by a second, by just under a minute, or by a day
Advances == {1, 59, 86400}

\* local day 1 at 16:59:00 (a minute before the default run_at_hhmm) and at
\* 23:59:59 (a second before local midnight)
StartTimes ==
    {LocalToEpoch(1, 16 * 3600 + 59 * 60), LocalToEpoch(1, 23 * 3600 + 59 * 60 + 59)}

ClockStep(limit) ==
    /\ advances < limit
    /\ \E d \in Advances : now' = now + d
    /\ advances' = advances + 1
    /\ UNCHANGED <<disk, job, hist, manualVars, pureVars>>

\* time passes, in the scheduler's specification
Advance == ClockStep(MaxAdvances)

\* time passes, in the specification with the manual triggers
Elapse == ClockStep(MaxElapse)

\* time passes, in the specification of the callers of a run
Wait == ClockStep(MaxWait)

(***************************************************************************)
(* The scheduler tick (scheduler._job), run by APScheduler once a minute   *)
(* with at most one instance at a time                                     *)
(***************************************************************************)
IdleJob == [pc |-> "idle", cfg |-> DefaultConfig, decided |-> 0]

NoHist == [prev |-> None, last |-> None, prevEnd |-> "none", lastEnd |-> "none"]

\* _job lines 18-29: load the config and decide; a tick that is not due, or
\* whose should_run_now raises, ends here
JobTick ==
    /\ job.pc = "idle"
    /\ LET cfg == LoadConfig(disk)
       IN  job' = IF ShouldRunNow(cfg, now) = "due"
                  THEN [pc |-> "due", cfg |-> cfg, decided |-> now]
                  ELSE job
    /\ UNCHANGED <<now, advances, disk, hist, manualVars, pureVars>>

\* _job lines 31-35: the clock is read again and set as cfg.last_run_epoch
JobStamp ==
    /\ job.pc = "due"
    /\ job' = [job EXCEPT !.pc = "stamped", !.cfg.last_run_epoch = Some(now)]
    /\ UNCHANGED <<now, advances, disk, hist, manualVars, pureVars>>

\* JobSave with a fault: the bookkeeping is set on cfg but never saved
JobSaveNotPersisted ==
    /\ job.pc = "stamped"
    /\ job' = [job EXCEPT !.pc = "saved",
                          !.cfg.last_run_local_date = Some(LocalDate(now))]
    /\ UNCHANGED <<now, advances, disk, hist, manualVars, pureVars>>

\* _job lines 36-44: today's local date is read from the clock, set as
\* cfg.last_run_local_date, and the loaded cfg is saved
JobSave ==
    /\ job.pc = "stamped"
    /\ job' = [job EXCEPT !.pc = "saved",
                          !.cfg.last_run_local_date = Some(LocalDate(now))]
    /\ disk' = File(job'.cfg)
    /\ UNCHANGED <<now, advances, hist, manualVars, pureVars>>

\* JobRunStart with a fault: the run may start before the bookkeeping is saved
JobRunStartBeforeSave ==
    /\ job.pc \in {"stamped", "saved"}
    /\ job' = [job EXCEPT !.pc = "running"]
    /\ hist' = [prev |-> hist.last, last |-> Some(job.decided),
                prevEnd |-> hist.lastEnd, lastEnd |-> "none"]
    /\ UNCHANGED <<now, advances, disk, manualVars, pureVars>>

\* _job lines 46-54, on the scheduler's own state: run_full_check is invoked
JobRunStartStep ==
    /\ job.pc = "saved"
    /\ job' = [job EXCEPT !.pc = "running"]
    /\ hist' = [prev |-> hist.last, last |-> Some(job.decided),
                prevEnd |-> hist.lastEnd, lastEnd |-> "none"]
    /\ UNCHANGED <<now, advances, disk, manualVars>>

\* _job lines 46-54: run_full_check is invoked and makes its first gateway
\* call (list_active_campaigns)
JobRunStart ==
    /\ JobRunStartStep
    /\ UNCHANGED pureVars

\* _job lines 54-101, on the scheduler's own state: the tick ends
JobRunEndStep(outcome) ==
    /\ job.pc = "running"
    /\ hist' = [hist EXCEPT !.lastEnd = outcome]
    /\ job' = IdleJob
    /\ UNCHANGED <<now, advances, disk, manualVars>>

\* _job lines 54-101: the run returns its results, or raises and the error is
\* caught and reported; either way the tick ends
JobRunEnd ==
    /\ \E outcome \in {"ok", "raised"} : JobRunEndStep(outcome)
    /\ UNCHANGED pureVars

(***************************************************************************)
(* Manual triggers: the dashboard's POST /run (web.run_now, web._run_once) *)
(* and the chat commands /check and /run (TelegramBot)                     *)
(***************************************************************************)
\* run_now lines 154-164, under _lock: rejected with /?running=1 when
\* _is_running is set, else load the config and start a _run_once thread
RunNow ==
    /\ triggers < MaxTriggers
    /\ triggers' = triggers + 1
    /\ webSpawned' = IF isRunning THEN webSpawned ELSE webSpawned + 1
    /\ UNCHANGED <<pureVars, schedVars, isRunning, webRunning, checkRunning, tgSpawned, tgRunning>>

\* _run_once line 40, on the triggers' own state: _is_running = True
WebRunBeginStep ==
    /\ webSpawned > 0
    /\ webSpawned' = webSpawned - 1
    /\ webRunning' = webRunning + 1
    /\ isRunning' = TRUE
    /\ UNCHANGED <<schedVars, checkRunning, tgSpawned, tgRunning, triggers>>

\* _run_once lines 37-48: the thread sets _is_running and calls run_full_check
WebRunBegin ==
    /\ WebRunBeginStep
    /\ UNCHANGED pureVars

\* _run_once lines 98-99, on the triggers' own state: finally: _is_running = False
WebRunEndStep ==
    /\ webRunning > 0
    /\ webRunning' = webRunning - 1
    /\ isRunning' = FALSE
    /\ UNCHANGED <<schedVars, webSpawned, checkRunning, tgSpawned, tgRunning, triggers>>

\* _run_once lines 49-99: the run returns or raises; finally: _is_running = False
WebRunEnd ==
    /\ WebRunEndStep
    /\ UNCHANGED pureVars

\* _handle_check_command: "already running" is sent when _check_running is
\* set, else a _run_check_in_background thread is started
HandleCheckCommand ==
    /\ triggers < MaxTriggers
    /\ triggers' = triggers + 1
    /\ tgSpawned' = IF checkRunning THEN tgSpawned ELSE tgSpawned + 1
    /\ UNCHANGED <<pureVars, schedVars, isRunning, webSpawned, webRunning, checkRunning, tgRunning>>

\* _run_check_in_background line 163, on the triggers' own state:
\* self._check_running = True
TgRunBeginStep ==
    /\ tgSpawned > 0
    /\ tgSpawned' = tgSpawned - 1
    /\ tgRunning' = tgRunning + 1
    /\ checkRunning' = TRUE
    /\ UNCHANGED <<schedVars, isRunning, webSpawned, webRunning, triggers>>

\* _run_check_in_background lines 163-175: the thread sets _check_running and
\* calls run_full_check
TgRunBegin ==
    /\ TgRunBeginStep
    /\ UNCHANGED pureVars

\* TgRunEndStep with a fault: the flag is not reset when the thread ends
TgRunEndStepKeepsLatch ==
    /\ tgRunning > 0
    /\ tgRunning' = tgRunning - 1
    /\ UNCHANGED <<schedVars, isRunning, webSpawned, webRunning, checkRunning, tgSpawned,
                   triggers>>

\* _run_check_in_background lines 226-227, on the triggers' own state:
\* finally: self._check_running = False
TgRunEndStep ==
    /\ tgRunning > 0
    /\ tgRunning' = tgRunning - 1
    /\ checkRunning' = FALSE
    /\ UNCHANGED <<schedVars, isRunning, webSpawned, webRunning, tgSpawned, triggers>>

\* _run_check_in_background lines 177-227: the run returns or raises;
\* finally: _check_running = False
TgRunEnd ==
    /\ TgRunEndStep
    /\ UNCHANGED pureVars

(***************************************************************************)
(* The process stops and is started again: threads and module globals are  *)
(* gone, the config file stays                                             *)
(***************************************************************************)
Crash ==
    /\ job.pc # "idle" \/ webSpawned + webRunning + tgSpawned + tgRunning > 0
    /\ job' = IdleJob
    /\ hist' = IF job.pc = "running" THEN [hist EXCEPT !.lastEnd = "crashed"] ELSE hist
    /\ isRunning' = FALSE
    /\ checkRunning' = FALSE
    /\ webSpawned' = 0
    /\ webRunning' = 0
    /\ tgSpawned' = 0
    /\ tgRunning' = 0
    /\ UNCHANGED <<now, advances, disk, triggers, pureVars>>

(***************************************************************************)
(* The health checker (checker.http_check, checker.dns_check) and the       *)
(* per-target loop of checker.run_full_check                               *)
(***************************************************************************)
CHECK_RETRIES == 2

\* the body length under which an HTML page counts as not loaded
MinHtmlChars == 200

UrlCheck(ok, failure_type, message, tested_url, http_status) ==
    [ok |-> ok, failure_type |-> failure_type, message |-> message,
     tested_url |-> tested_url, http_status |-> http_status]

\* a message: "timeout", "unknown", the text of an error, or "HTTP <status>"
\* with "; content too small" added when too_small
Message(text, status, too_small) ==
    [text |-> text, status |-> status, too_small |-> too_small]

\* a URL by what urlparse finds in it; host "" when it has no hostname
Url(scheme, host) == [scheme |-> scheme, host |-> host]

\* a response body: blanks before, the text between the first and the last
\* non-blank character, blanks after
Body(lead, core, trail) == [lead |-> lead, core |-> core, trail |-> trail]

\* len(txt)
RawLen(body) == body.lead + body.core + body.trail

\* len(txt.strip())
StrippedLen(body) == body.core

\* "text/html" in (content-type or "").lower(), for the header values used
HtmlContentTypes == {"text/html", "text/html; charset=utf-8", "TEXT/HTML"}

OtherContentTypes == {"application/json", "application/xhtml+xml", ""}

IsHtml(ctype) == ctype \in HtmlContentTypes

\* what client.get(url) meets: a response, or an exception of one of the
\* three classes http_check tells apart
Response(status, ctype, body) ==
    [kind |-> "response", status |-> status, ctype |-> ctype, body |-> body]

Raised(kind) == [kind |-> kind, status |-> 0, ctype |-> "", body |-> Body(0, 0, 0)]

ErrorOutcomes == {Raised("timeout"), Raised("request_error"), Raised("exception")}

\* HttpCheck with a fault: the body is measured without strip()
HttpCheckNoStrip(url, o) ==
    IF o.kind = "response"
    THEN LET ok == 200 <= o.status /\ o.status < 400
             content_ok == ~(IsHtml(o.ctype) /\ RawLen(o.body) < MinHtmlChars)
         IN  IF ok /\ content_ok
             THEN UrlCheck(TRUE, "none", None, Some(url), Some(o.status))
             ELSE UrlCheck(FALSE, "http",
                           Some(Message("HTTP", Some(o.status), ok /\ ~content_ok)),
                           Some(url), Some(o.status))
    ELSE IF o.kind = "timeout"
         THEN UrlCheck(FALSE, "timeout", Some(Message("timeout", None, FALSE)), Some(url), None)
    ELSE IF o.kind = "request_error"
         THEN UrlCheck(FALSE, "http", Some(Message("error", None, FALSE)), Some(url), None)
    ELSE UrlCheck(FALSE, "other", Some(Message("error", None, FALSE)), Some(url), None)

\* HttpCheck with a fault: a failed response is returned without failure_type
HttpCheckNoFailureType(url, o) ==
    IF o.kind = "response"
    THEN LET ok == 200 <= o.status /\ o.status < 400
             content_ok == ~(IsHtml(o.ctype) /\ StrippedLen(o.body) < MinHtmlChars)
         IN  IF ok /\ content_ok
             THEN UrlCheck(TRUE, "none", None, Some(url), Some(o.status))
             ELSE UrlCheck(FALSE, "none",
                           Some(Message("HTTP", Some(o.status), ok /\ ~content_ok)),
                           Some(url), Some(o.status))
    ELSE IF o.kind = "timeout"
         THEN UrlCheck(FALSE, "timeout", Some(Message("timeout", None, FALSE)), Some(url), None)
    ELSE IF o.kind = "request_error"
         THEN UrlCheck(FALSE, "http", Some(Message("error", None, FALSE)), Some(url), None)
    ELSE UrlCheck(FALSE, "other", Some(Message("error", None, FALSE)), Some(url), None)

\* HttpCheck with a fault: httpx.RequestError is caught before
\* httpx.TimeoutException, its subclass
HttpCheckTimeoutAsHttp(url, o) ==
    IF o.kind = "response"
    THEN LET ok == 200 <= o.status /\ o.status < 400
             content_ok == ~(IsHtml(o.ctype) /\ StrippedLen(o.body) < MinHtmlChars)
         IN  IF ok /\ content_ok
             THEN UrlCheck(TRUE, "none", None, Some(url), Some(o.status))
             ELSE UrlCheck(FALSE, "http",
                           Some(Message("HTTP", Some(o.status), ok /\ ~content_ok)),
                           Some(url), Some(o.status))
    ELSE IF o.kind \in {"timeout", "request_error"}
         THEN UrlCheck(FALSE, "http", Some(Message("error", None, FALSE)), Some(url), None)
    ELSE UrlCheck(FALSE, "other", Some(Message("error", None, FALSE)), Some(url), None)

\* http_check(url) when the GET meets o
HttpCheck(url, o) ==
    IF o.kind = "response"
    THEN LET ok == 200 <= o.status /\ o.status < 400
             content_ok == ~(IsHtml(o.ctype) /\ StrippedLen(o.body) < MinHtmlChars)
         IN  IF ok /\ content_ok
             THEN UrlCheck(TRUE, "none", None, Some(url), Some(o.status))
             ELSE UrlCheck(FALSE, "http",
                           Some(Message("HTTP", Some(o.status), ok /\ ~content_ok)),
                           Some(url), Some(o.status))
    ELSE IF o.kind = "timeout"
         THEN UrlCheck(FALSE, "timeout", Some(Message("timeout", None, FALSE)), Some(url), None)
    ELSE IF o.kind = "request_error"
         THEN UrlCheck(FALSE, "http", Some(Message("error", None, FALSE)), Some(url), None)
    ELSE UrlCheck(FALSE, "other", Some(Message("error", None, FALSE)), Some(url), None)

\* {"kind": kind, **check.__dict__}
CheckEntry(kind, c) ==
    [kind |-> kind, ok |-> c.ok, failure_type |-> c.failure_type,
     message |-> c.message, tested_url |-> c.tested_url, http_status |-> c.http_status]

\* UrlsToCheck with a fault: the domain variants come before the tracking URL
UrlsToCheckDomainFirst(tracking_url, domain_name, landing_urls) ==
    (IF domain_name # None
     THEN <<<<"domain_https", Url("https", domain_name[1])>>,
            <<"domain_http", Url("http", domain_name[1])>>>>
     ELSE <<>>)
    \o (IF tracking_url # None THEN <<<<"tracking", tracking_url[1]>>>> ELSE <<>>)
    \o [i \in 1..Len(landing_urls) |-> <<"landing", landing_urls[i]>>]

\* run_full_check lines 209-231: the tracking URL, then https:// and http://
\* of the resolved domain, then the landing URLs
UrlsToCheck(tracking_url, domain_name, landing_urls) ==
    (IF tracking_url # None THEN <<<<"tracking", tracking_url[1]>>>> ELSE <<>>)
    \o (IF domain_name # None
        THEN <<<<"domain_https", Url("https", domain_name[1])>>,
               <<"domain_http", Url("http", domain_name[1])>>>>
        ELSE <<>>)
    \o [i \in 1..Len(landing_urls) |-> <<"landing", landing_urls[i]>>]

NoOutcome == Raised("none")

IdleHttp ==
    /\ httpIn = NoOutcome
    /\ httpOut = None

IdleCheck ==
    /\ targets = <<>>
    /\ ti = 1
    /\ cpc = "done"
    /\ attempt = 0
    /\ best = None
    /\ checks = <<>>
    /\ dnsCalls = 0
    /\ dnsResult = "none"
    /\ attemptLog = <<>>

(***************************************************************************)
(* run_full_check lines 233-252: the loop over the check targets           *)
(***************************************************************************)
AfterTarget(i) == IF i + 1 > Len(targets) THEN "done" ELSE "target"

\* CheckTargetDns with a fault: the dns entry is recorded but the loop does not
\* continue with the next target
CheckTargetDnsNoContinue ==
    /\ cpc = "target"
    /\ ti <= Len(targets)
    /\ attempt' = 0
    /\ best' = None
    /\ attemptLog' = <<>>
    /\ \/ /\ targets[ti][2].host = ""
          /\ dnsCalls' = 0
          /\ dnsResult' = "skipped"
          /\ cpc' = IF CHECK_RETRIES + 1 > 0 THEN "http" ELSE "append"
          /\ UNCHANGED <<ti, checks>>
       \/ /\ targets[ti][2].host # ""
          /\ dnsCalls' = 1
          /\ dnsResult' = "ok"
          /\ cpc' = IF CHECK_RETRIES + 1 > 0 THEN "http" ELSE "append"
          /\ UNCHANGED <<ti, checks>>
       \/ /\ targets[ti][2].host # ""
          /\ dnsCalls' = 1
          /\ dnsResult' = "fail"
          /\ checks' = Append(checks,
                 CheckEntry(targets[ti][1],
                     UrlCheck(FALSE, "dns", Some(Message("dns error", None, FALSE)),
                              Some(targets[ti][2]), None)))
          /\ cpc' = IF CHECK_RETRIES + 1 > 0 THEN "http" ELSE "append"
          /\ UNCHANGED ti
    /\ UNCHANGED <<schedVars, manualVars, runVars, decision, httpIn, unitVars, httpOut, targets>>

\* lines 234-246: parse the host; with a host, dns_check it once, and on
\* failure record a dns entry and continue with the next target
CheckTargetDns ==
    /\ cpc = "target"
    /\ ti <= Len(targets)
    /\ attempt' = 0
    /\ best' = None
    /\ attemptLog' = <<>>
    /\ \/ /\ targets[ti][2].host = ""
          /\ dnsCalls' = 0
          /\ dnsResult' = "skipped"
          /\ cpc' = IF CHECK_RETRIES + 1 > 0 THEN "http" ELSE "append"
          /\ UNCHANGED <<ti, checks>>
       \/ /\ targets[ti][2].host # ""
          /\ dnsCalls' = 1
          /\ dnsResult' = "ok"
          /\ cpc' = IF CHECK_RETRIES + 1 > 0 THEN "http" ELSE "append"
          /\ UNCHANGED <<ti, checks>>
       \/ /\ targets[ti][2].host # ""
          /\ dnsCalls' = 1
          /\ dnsResult' = "fail"
          /\ checks' = Append(checks,
                 CheckEntry(targets[ti][1],
                     UrlCheck(FALSE, "dns", Some(Message("dns error", None, FALSE)),
                              Some(targets[ti][2]), None)))
          /\ ti' = ti + 1
          /\ cpc' = AfterTarget(ti)
    /\ UNCHANGED <<schedVars, manualVars, runVars, decision, httpIn, unitVars, httpOut, targets>>

\* the outcomes an attempt of the loop may meet
LoopOutcomes ==
    ErrorOutcomes
    \cup {Response(st, ct, b) :
            st \in {200, 404}, ct \in {"text/html", "application/json"},
            b \in {Body(0, 50, 0), Body(0, 500, 0)}}

\* HttpAttempt with a fault: no break on success
HttpAttemptNoBreak ==
    /\ cpc = "http"
    /\ attempt < CHECK_RETRIES + 1
    /\ \E o \in LoopOutcomes :
          LET res == HttpCheck(targets[ti][2], o)
          IN  /\ best' = Some(res)
              /\ attemptLog' = Append(attemptLog, res)
              /\ cpc' = IF attempt + 1 = CHECK_RETRIES + 1 THEN "append" ELSE "http"
    /\ attempt' = attempt + 1
    /\ UNCHANGED <<schedVars, manualVars, runVars, decision, httpIn, unitVars, httpOut, targets, ti,
                   checks, dnsCalls, dnsResult>>

\* HttpAttempt with a fault: an unexpected exception of the GET is not caught
\* and leaves run_full_check
HttpAttemptUncaught ==
    /\ cpc = "http"
    /\ attempt < CHECK_RETRIES + 1
    /\ \E o \in LoopOutcomes :
          LET res == HttpCheck(targets[ti][2], o)
          IN  IF o.kind = "exception"
              THEN /\ rpc' = "raised"
                   /\ UNCHANGED <<best, attemptLog, cpc>>
              ELSE /\ best' = Some(res)
                   /\ attemptLog' = Append(attemptLog, res)
                   /\ cpc' = IF res.ok \/ attempt + 1 = CHECK_RETRIES + 1
                             THEN "append" ELSE "http"
                   /\ UNCHANGED rpc
    /\ attempt' = attempt + 1
    /\ UNCHANGED <<schedVars, manualVars, decision, httpIn, unitVars, httpOut, targets, ti,
                   checks, dnsCalls, dnsResult, caller, gateway, campaigns,
                   reportRows, activeMap, ci, cur, domainCache, landingCache,
                   results, calls, sends, runs, db>>

\* lines 247-251: one pass of "for attempt in range(CHECK_RETRIES + 1)":
\* res = http_check(url); best = res; break when res.ok
HttpAttempt ==
    /\ cpc = "http"
    /\ attempt < CHECK_RETRIES + 1
    /\ \E o \in LoopOutcomes :
          LET res == HttpCheck(targets[ti][2], o)
          IN  /\ best' = Some(res)
              /\ attemptLog' = Append(attemptLog, res)
              /\ cpc' = IF res.ok \/ attempt + 1 = CHECK_RETRIES + 1
                        THEN "append" ELSE "http"
    /\ attempt' = attempt + 1
    /\ UNCHANGED <<schedVars, manualVars, runVars, decision, httpIn, unitVars, httpOut, targets, ti,
                   checks, dnsCalls, dnsResult>>

\* line 252: the entry of best is appended, or of an "unknown" failure when
\* the loop made no attempt
AppendCheck ==
    /\ cpc = "append"
    /\ checks' = Append(checks,
           CheckEntry(targets[ti][1],
               IF best # None THEN best[1]
               ELSE UrlCheck(FALSE, "other", Some(Message("unknown", None, FALSE)),
                             None, None)))
    /\ ti' = ti + 1
    /\ cpc' = AfterTarget(ti)
    /\ UNCHANGED <<schedVars, manualVars, runVars, decision, httpIn, unitVars, httpOut, targets, attempt,
                   best, dnsCalls, dnsResult, attemptLog>>

(***************************************************************************)
(* checker.py lines 28-37 and 128-150: the Activity Filter.  The gateway   *)
(* returns JSON, so a field holds null (as does an absent key under        *)
(* dict.get), a number or a string; a string is a sequence of characters.  *)
(***************************************************************************)
JVal(t, n, s) == [t |-> t, n |-> n, s |-> s]

JNull == JVal("null", 0, <<>>)

JNum(n) == JVal("num", n, <<>>)

JStr(s) == JVal("str", 0, s)

RECURSIVE NatToChars(_)
NatToChars(n) ==
    IF n < 10 THEN <<Digits[n + 1]>>
    ELSE Append(NatToChars(n \div 10), Digits[(n % 10) + 1])

\* str(v)
PyStr(v) ==
    IF v.t = "null" THEN <<"N", "o", "n", "e">>
    ELSE IF v.t = "str" THEN v.s
    ELSE IF v.n < 0 THEN <<"-">> \o NatToChars(0 - v.n)
    ELSE NatToChars(v.n)

\* float(v) of a number or a string: None when it raises.  The strings of the
\* model hold integer literals or no number at all.
PyFloat(v) == IF v.t = "num" THEN Some(v.n) ELSE ParseInt(v.s)

CidKeys == <<"campaign_id", "id", "campaign", "campaignId">>

CostKeys == <<"cost", "spend", "total_cost", "totalCost">>

RevKeys == <<"revenue", "rev", "total_revenue", "totalRevenue">>

\* a report row holding the values ids, costs and revs under the keys above
ReportRow(ids, costs, revs) ==
    [k \in {CidKeys[i] : i \in 1..4} \cup {CostKeys[i] : i \in 1..4}
           \cup {RevKeys[i] : i \in 1..4} |->
        IF \E i \in 1..4 : CidKeys[i] = k
        THEN ids[CHOOSE i \in 1..4 : CidKeys[i] = k]
        ELSE IF \E i \in 1..4 : CostKeys[i] = k
             THEN costs[CHOOSE i \in 1..4 : CostKeys[i] = k]
             ELSE revs[CHOOSE i \in 1..4 : RevKeys[i] = k]]

\* _pick_number: the value of the first key that is not None and that float()
\* accepts, None when there is no such key
RECURSIVE PickNumberFrom(_, _, _)
PickNumberFrom(d, keys, i) ==
    IF i > Len(keys) THEN None
    ELSE IF d[keys[i]].t = "null" \/ PyFloat(d[keys[i]]) = None
         THEN PickNumberFrom(d, keys, i + 1)
         ELSE PyFloat(d[keys[i]])

PickNumber(d, keys) == PickNumberFrom(d, keys, 1)

\* "x or 0.0"
OrZero(x) == IF x = None \/ x[1] = 0 THEN 0 ELSE x[1]

\* lines 134-138: str() of the value of the first id key that is not None
RECURSIVE RowCidFrom(_, _)
RowCidFrom(row, i) ==
    IF i > Len(CidKeys) THEN None
    ELSE IF row[CidKeys[i]].t # "null" THEN Some(PyStr(row[CidKeys[i]]))
    ELSE RowCidFrom(row, i + 1)

RowCid(row) == RowCidFrom(row, 1)

\* a campaign document: its id and the fields extract_urls_from_campaign reads
Campaign(id, tracking_url, domain_id, landing_ids) ==
    [id |-> id, tracking_url |-> tracking_url, domain_id |-> domain_id,
     landing_ids |-> landing_ids]

\* line 129: ids = {str(c.get("id")) for c in campaigns if c.get("id") is not None}
CampaignIds(cs) == {PyStr(cs[i].id) : i \in {j \in 1..Len(cs) : cs[j].id.t # "null"}}

Stats(cost, rev) == [cost_30d |-> cost, revenue_30d |-> rev]

EmptyMap == <<>>

\* d[k] = v
Put(d, k, v) == [x \in DOMAIN d \cup {k} |-> IF x = k THEN v ELSE d[x]]

\* FilterRows with a fault: the test "cid not in ids" is left out
RECURSIVE FilterRowsAnyId(_, _, _, _)
FilterRowsAnyId(ids, rows, i, out) ==
    IF i > Len(rows) THEN out
    ELSE LET cid == RowCid(rows[i])
             cost == OrZero(PickNumber(rows[i], CostKeys))
             rev == OrZero(PickNumber(rows[i], RevKeys))
         IN  IF cid = None \/ cid[1] = <<>>
             THEN FilterRowsAnyId(ids, rows, i + 1, out)
             ELSE IF cost > 0 \/ rev > 0
                  THEN FilterRowsAnyId(ids, rows, i + 1, Put(out, cid[1], Stats(cost, rev)))
                  ELSE FilterRowsAnyId(ids, rows, i + 1, out)

\* lines 132-149: the loop over the report rows, from row i on
RECURSIVE FilterRows(_, _, _, _)
FilterRows(ids, rows, i, out) ==
    IF i > Len(rows) THEN out
    ELSE LET cid == RowCid(rows[i])
             cost == OrZero(PickNumber(rows[i], CostKeys))
             rev == OrZero(PickNumber(rows[i], RevKeys))
         IN  IF cid = None \/ cid[1] = <<>> \/ cid[1] \notin ids
             THEN FilterRows(ids, rows, i + 1, out)
             ELSE IF cost > 0 \/ rev > 0
                  THEN FilterRows(ids, rows, i + 1, Put(out, cid[1], Stats(cost, rev)))
                  ELSE FilterRows(ids, rows, i + 1, out)

FilterCampaignsWithActivity(cs, rows) == FilterRows(CampaignIds(cs), rows, 1, EmptyMap)

(***************************************************************************)
(* run_full_check lines 174-269: the pass over the campaigns.  Ids are     *)
(* strings (sequences of characters); a domain document is the host name   *)
(* it names, a landing document the URL it names, None for a document      *)
(* without one (as is the {} cached after a failed lookup).                *)
(***************************************************************************)
\* a gateway call and whether it returned (ok) or raised
Call(op, id, ok) == [op |-> op, id |-> id, ok |-> ok]

Gateway(cs, rows, domains, landings) ==
    [campaigns |-> cs, rows |-> rows, domains |-> domains, landings |-> landings]

NoGateway == Gateway(<<>>, <<>>, EmptyMap, EmptyMap)

\* the locals of one pass of "for c in campaigns": cid, meta, domain_name,
\* landing_urls and the position li in meta["landing_ids"]
Current(cid, doc, domain_name, landing_urls, li) ==
    [cid |-> cid, tracking_url |-> doc.tracking_url, domain_id |-> doc.domain_id,
     landing_ids |-> doc.landing_ids, domain_name |-> domain_name,
     landing_urls |-> landing_urls, li |-> li]

NoCurrent == Current(<<>>, Campaign(JNull, None, None, <<>>), None, <<>>, 1)

\* lines 254-267: the Campaign Result (title and status are left out)
CampaignResult(c, stats, cks) ==
    [campaign |-> [id |-> c.cid, domain_id |-> c.domain_id,
                   domain_name |-> c.domain_name, trackback_url |-> c.tracking_url],
     stats |-> stats, checks |-> cks]

IdleRun ==
    /\ caller = "none"
    /\ rpc = "idle"
    /\ gateway = NoGateway
    /\ campaigns = <<>>
    /\ reportRows = <<>>
    /\ activeMap = EmptyMap
    /\ ci = 1
    /\ cur = NoCurrent
    /\ domainCache = EmptyMap
    /\ landingCache = EmptyMap
    /\ results = <<>>
    /\ calls = <<>>
    /\ sends = <<>>
    /\ runs = <<>>
    /\ db = <<>>

\* line 174: campaigns = redtrack.list_active_campaigns(); a RedTrackError
\* leaves run_full_check
ListActiveCampaigns ==
    /\ rpc = "list"
    /\ \/ /\ calls' = Append(calls, Call("list_active_campaigns", <<>>, TRUE))
          /\ campaigns' = gateway.campaigns
          /\ rpc' = "report"
       \/ /\ calls' = Append(calls, Call("list_active_campaigns", <<>>, FALSE))
          /\ rpc' = "raised"
          /\ UNCHANGED campaigns
    /\ UNCHANGED <<schedVars, manualVars, decision, httpIn, unitVars, httpOut, checkVars,
                   caller, gateway, reportRows, activeMap, ci, cur, domainCache,
                   landingCache, results, sends, runs, db>>

\* lines 177-185: report_rows = redtrack.report_by_campaign(df, dt_), then
\* active_map = filter_campaigns_with_activity(campaigns, report_rows)
ReportByCampaign ==
    /\ rpc = "report"
    /\ \/ /\ calls' = Append(calls, Call("report_by_campaign", <<>>, TRUE))
          /\ reportRows' = gateway.rows
          /\ activeMap' = FilterCampaignsWithActivity(campaigns, gateway.rows)
          /\ rpc' = "campaign"
          /\ ci' = 1
          /\ results' = <<>>
          /\ domainCache' = EmptyMap
          /\ landingCache' = EmptyMap
       \/ /\ calls' = Append(calls, Call("report_by_campaign", <<>>, FALSE))
          /\ rpc' = "raised"
          /\ UNCHANGED <<reportRows, activeMap, ci, results, domainCache, landingCache>>
    /\ UNCHANGED <<schedVars, manualVars, decision, httpIn, unitVars, httpOut, checkVars,
                   caller, gateway, campaigns, cur, sends, runs, db>>

\* SkipCampaign with a fault: a campaign is skipped whether or not it is in
\* active_map
SkipCampaignAlways ==
    /\ rpc = "campaign"
    /\ ci <= Len(campaigns)
    /\ ci' = ci + 1
    /\ UNCHANGED <<schedVars, manualVars, decision, httpIn, unitVars, httpOut, checkVars,
                   caller, rpc, gateway, campaigns, reportRows, activeMap, cur,
                   domainCache, landingCache, results, calls, sends, runs, db>>

\* lines 187-190: "if cid not in active_map: continue"
SkipCampaign ==
    /\ rpc = "campaign"
    /\ ci <= Len(campaigns)
    /\ PyStr(campaigns[ci].id) \notin DOMAIN activeMap
    /\ ci' = ci + 1
    /\ UNCHANGED <<schedVars, manualVars, decision, httpIn, unitVars, httpOut, checkVars,
                   caller, rpc, gateway, campaigns, reportRows, activeMap, cur,
                   domainCache, landingCache, results, calls, sends, runs, db>>

\* GetCampaign with a fault: the test "cid not in active_map" is left out
GetCampaignUnfiltered ==
    /\ rpc = "campaign"
    /\ ci <= Len(campaigns)
    /\ \/ /\ calls' = Append(calls, Call("get_campaign", PyStr(campaigns[ci].id), TRUE))
          /\ cur' = Current(PyStr(campaigns[ci].id), campaigns[ci], None, <<>>, 1)
          /\ rpc' = "domain"
       \/ /\ calls' = Append(calls, Call("get_campaign", PyStr(campaigns[ci].id), FALSE))
          /\ rpc' = "raised"
          /\ UNCHANGED cur
    /\ UNCHANGED <<schedVars, manualVars, decision, httpIn, unitVars, httpOut, checkVars,
                   caller, gateway, campaigns, reportRows, activeMap, ci,
                   domainCache, landingCache, results, sends, runs, db>>

\* lines 195-196: full = redtrack.get_campaign(cid), outside any try, then
\* meta = extract_urls_from_campaign(full)
GetCampaign ==
    /\ rpc = "campaign"
    /\ ci <= Len(campaigns)
    /\ PyStr(campaigns[ci].id) \in DOMAIN activeMap
    /\ \/ /\ calls' = Append(calls, Call("get_campaign", PyStr(campaigns[ci].id), TRUE))
          /\ cur' = Current(PyStr(campaigns[ci].id), campaigns[ci], None, <<>>, 1)
          /\ rpc' = "domain"
       \/ /\ calls' = Append(calls, Call("get_campaign", PyStr(campaigns[ci].id), FALSE))
          /\ rpc' = "raised"
          /\ UNCHANGED cur
    /\ UNCHANGED <<schedVars, manualVars, decision, httpIn, unitVars, httpOut, checkVars,
                   caller, gateway, campaigns, reportRows, activeMap, ci,
                   domainCache, landingCache, results, sends, runs, db>>

\* DomainLookup with a fault: the {} of a failed lookup is not cached
DomainLookupFailureNotCached ==
    /\ rpc = "domain"
    /\ \/ /\ cur.domain_id = None
          /\ UNCHANGED <<cur, domainCache, calls>>
       \/ /\ cur.domain_id # None
          /\ cur.domain_id[1] \in DOMAIN domainCache
          /\ cur' = [cur EXCEPT !.domain_name = domainCache[cur.domain_id[1]]]
          /\ UNCHANGED <<domainCache, calls>>
       \/ /\ cur.domain_id # None
          /\ cur.domain_id[1] \notin DOMAIN domainCache
          /\ \/ /\ calls' = Append(calls, Call("get_domain", cur.domain_id[1], TRUE))
                /\ domainCache' = Put(domainCache, cur.domain_id[1],
                                      gateway.domains[cur.domain_id[1]])
                /\ cur' = [cur EXCEPT !.domain_name = gateway.domains[cur.domain_id[1]]]
             \/ /\ calls' = Append(calls, Call("get_domain", cur.domain_id[1], FALSE))
                /\ UNCHANGED domainCache
                /\ cur' = [cur EXCEPT !.domain_name = None]
    /\ rpc' = "landing"
    /\ UNCHANGED <<schedVars, manualVars, decision, httpIn, unitVars, httpOut, checkVars,
                   caller, gateway, campaigns, reportRows, activeMap, ci,
                   landingCache, results, sends, runs, db>>

\* lines 198-207: with a domain id, get_domain is called unless the id is in
\* domain_cache; an exception caches {}; domain_name is read from the cache
DomainLookup ==
    /\ rpc = "domain"
    /\ \/ /\ cur.domain_id = None
          /\ UNCHANGED <<cur, domainCache, calls>>
       \/ /\ cur.domain_id # None
          /\ cur.domain_id[1] \in DOMAIN domainCache
          /\ cur' = [cur EXCEPT !.domain_name = domainCache[cur.domain_id[1]]]
          /\ UNCHANGED <<domainCache, calls>>
       \/ /\ cur.domain_id # None
          /\ cur.domain_id[1] \notin DOMAIN domainCache
          /\ \/ /\ calls' = Append(calls, Call("get_domain", cur.domain_id[1], TRUE))
                /\ domainCache' = Put(domainCache, cur.domain_id[1],
                                      gateway.domains[cur.domain_id[1]])
             \/ /\ calls' = Append(calls, Call("get_domain", cur.domain_id[1], FALSE))
                /\ domainCache' = Put(domainCache, cur.domain_id[1], None)
          /\ cur' = [cur EXCEPT !.domain_name = domainCache'[cur.domain_id[1]]]
    /\ rpc' = "landing"
    /\ UNCHANGED <<schedVars, manualVars, decision, httpIn, unitVars, httpOut, checkVars,
                   caller, gateway, campaigns, reportRows, activeMap, ci,
                   landingCache, results, sends, runs, db>>

\* LandingLookup with a fault: an exception of get_landing is not caught
LandingLookupUncaught ==
    /\ rpc = "landing"
    /\ cur.li <= Len(cur.landing_ids)
    /\ LET lid == cur.landing_ids[cur.li]
       IN  \/ /\ lid \in DOMAIN landingCache
              /\ UNCHANGED <<landingCache, calls, rpc>>
              /\ cur' = [cur EXCEPT !.li = @ + 1,
                                    !.landing_urls = @ \o landingCache[lid]]
           \/ /\ lid \notin DOMAIN landingCache
              /\ \/ /\ calls' = Append(calls, Call("get_landing", lid, TRUE))
                    /\ landingCache' = Put(landingCache, lid, gateway.landings[lid])
                    /\ cur' = [cur EXCEPT !.li = @ + 1,
                                          !.landing_urls = @ \o gateway.landings[lid]]
                    /\ UNCHANGED rpc
                 \/ /\ calls' = Append(calls, Call("get_landing", lid, FALSE))
                    /\ rpc' = "raised"
                    /\ UNCHANGED <<landingCache, cur>>
    /\ UNCHANGED <<schedVars, manualVars, decision, httpIn, unitVars, httpOut, checkVars,
                   caller, gateway, campaigns, reportRows, activeMap, ci,
                   domainCache, results, sends, runs, db>>

\* lines 219-228: one pass of "for lid in meta['landing_ids']": get_landing is
\* called unless lid is in landing_cache; an exception caches {}; the URL of
\* the cached document, when it has one, is appended to landing_urls
LandingLookup ==
    /\ rpc = "landing"
    /\ cur.li <= Len(cur.landing_ids)
    /\ LET lid == cur.landing_ids[cur.li]
       IN  /\ \/ /\ lid \in DOMAIN landingCache
                 /\ UNCHANGED <<landingCache, calls>>
              \/ /\ lid \notin DOMAIN landingCache
                 /\ \/ /\ calls' = Append(calls, Call("get_landing", lid, TRUE))
                       /\ landingCache' = Put(landingCache, lid, gateway.landings[lid])
                    \/ /\ calls' = Append(calls, Call("get_landing", lid, FALSE))
                       /\ landingCache' = Put(landingCache, lid, None)
           /\ cur' = [cur EXCEPT !.li = @ + 1,
                                 !.landing_urls = @ \o landingCache'[lid]]
    /\ UNCHANGED <<schedVars, manualVars, decision, httpIn, unitVars, httpOut, checkVars,
                   caller, rpc, gateway, campaigns, reportRows, activeMap, ci,
                   domainCache, results, sends, runs, db>>

\* lines 209-216 and 230-233: urls_to_check is built and the loop over it
\* starts with an empty checks list
StartChecks ==
    /\ rpc = "landing"
    /\ cur.li > Len(cur.landing_ids)
    /\ targets' = UrlsToCheck(cur.tracking_url, cur.domain_name, cur.landing_urls)
    /\ ti' = 1
    /\ cpc' = IF targets' = <<>> THEN "done" ELSE "target"
    /\ checks' = <<>>
    /\ attempt' = 0
    /\ best' = None
    /\ dnsCalls' = 0
    /\ dnsResult' = "none"
    /\ attemptLog' = <<>>
    /\ rpc' = "checks"
    /\ UNCHANGED <<schedVars, manualVars, decision, httpIn, unitVars, httpOut, caller,
                   gateway, campaigns, reportRows, activeMap, ci, cur, domainCache,
                   landingCache, results, calls, sends, runs, db>>

\* lines 254-267: results.append(...) once the loop over urls_to_check is done;
\* the history of the loop's last target ends here
AppendResult ==
    /\ rpc = "checks"
    /\ cpc = "done"
    /\ results' = Append(results, CampaignResult(cur, activeMap[cur.cid], checks))
    /\ ci' = ci + 1
    /\ rpc' = "campaign"
    /\ dnsCalls' = 0
    /\ dnsResult' = "none"
    /\ attemptLog' = <<>>
    /\ UNCHANGED <<schedVars, manualVars, decision, httpIn, unitVars, httpOut, targets, ti, cpc,
                   attempt, best, checks, caller, gateway, campaigns, reportRows,
                   activeMap, cur, domainCache, landingCache, calls, sends, runs, db>>

\* line 269: return results
ReturnResults ==
    /\ rpc = "campaign"
    /\ ci > Len(campaigns)
    /\ rpc' = "returned"
    /\ UNCHANGED <<schedVars, manualVars, decision, httpIn, unitVars, httpOut, checkVars,
                   caller, gateway, campaigns, reportRows, activeMap, ci, cur,
                   domainCache, landingCache, results, calls, sends, runs, db>>

(***************************************************************************)
(* The callers of run_full_check: scheduler._job, web._run_once,           *)
(* TelegramBot._run_check_in_background and run_check.main.  A send_message*)
(* call returns (ok) or raises; the lines that send_many is given here fit *)
(* one message, so it makes one send_message call.                         *)
(***************************************************************************)
MAX_CACHED_RUNS == 30

Send(text, ok) == [text |-> text, ok |-> ok]

\* sum(1 for r in results if any(not ch.get("ok") for ch in r.get("checks", [])))
FailingCount(rs) ==
    Cardinality({j \in 1..Len(rs) :
                    \E k \in 1..Len(rs[j].checks) : ~rs[j].checks[k].ok})

RunRecord(kind, rs) ==
    [kind |-> kind, total_checked |-> Len(rs), failing |-> FailingCount(rs),
     results |-> rs]

\* AppendRun with a fault: the list is cut from the front, the newest dropped
AppendRunKeepsOldest(rs, rec) ==
    SubSeq(<<rec>> \o rs,
           IF Len(rs) + 1 > MAX_CACHED_RUNS THEN Len(rs) + 2 - MAX_CACHED_RUNS ELSE 1,
           Len(rs) + 1)

\* results_store.append_run: the record goes first, the list is cut to
\* MAX_CACHED_RUNS
AppendRun(rs, rec) ==
    SubSeq(<<rec>> \o rs, 1,
           IF Len(rs) + 1 > MAX_CACHED_RUNS THEN MAX_CACHED_RUNS ELSE Len(rs) + 1)

\* the locals of run_full_check
runLocals == <<gateway, campaigns, reportRows, activeMap, ci, cur, domainCache,
               landingCache, results, calls>>

\* _job lines 46-54: run_full_check is entered
ScheduledRunStart ==
    /\ caller = "scheduled"
    /\ rpc = "idle"
    /\ JobRunStartStep
    /\ rpc' = "list"
    /\ UNCHANGED <<decision, httpIn, unitVars, httpOut, checkVars, caller, runLocals, sends,
                   runs, db>>

\* ScheduledRunReturned with a fault: the alert is sent whatever failing is
ScheduledRunReturnedAlwaysSends ==
    /\ caller = "scheduled"
    /\ rpc = "returned"
    /\ runs' = AppendRun(runs, RunRecord("scheduled", results))
    /\ \E ok \in BOOLEAN : sends' = Append(sends, Send("alert", ok))
    /\ JobRunEndStep("ok")
    /\ rpc' = "reported"
    /\ UNCHANGED <<decision, httpIn, unitVars, httpOut, checkVars, caller, runLocals, db>>

\* _job lines 56-92: failing is counted, the run record appended, and with
\* failing > 0 send_many is called, its exception caught
ScheduledRunReturned ==
    /\ caller = "scheduled"
    /\ rpc = "returned"
    /\ runs' = AppendRun(runs, RunRecord("scheduled", results))
    /\ IF FailingCount(results) > 0
       THEN \E ok \in BOOLEAN : sends' = Append(sends, Send("alert", ok))
       ELSE UNCHANGED sends
    /\ JobRunEndStep("ok")
    /\ rpc' = "reported"
    /\ UNCHANGED <<decision, httpIn, unitVars, httpOut, checkVars, caller, runLocals, db>>

\* ScheduledRunRaised with a fault: the failure message is sent twice
ScheduledRunRaisedSendsTwice ==
    /\ caller = "scheduled"
    /\ rpc = "raised"
    /\ \E ok \in BOOLEAN :
          sends' = sends \o <<Send("job_failed", ok), Send("job_failed", ok)>>
    /\ JobRunEndStep("raised")
    /\ rpc' = "failed"
    /\ UNCHANGED <<decision, httpIn, unitVars, httpOut, checkVars, caller, runLocals, runs, db>>

\* _job lines 94-101: the exception of run_full_check is caught and
\* send_message is called once, its exception passed over
ScheduledRunRaised ==
    /\ caller = "scheduled"
    /\ rpc = "raised"
    /\ \E ok \in BOOLEAN : sends' = Append(sends, Send("job_failed", ok))
    /\ JobRunEndStep("raised")
    /\ rpc' = "failed"
    /\ UNCHANGED <<decision, httpIn, unitVars, httpOut, checkVars, caller, runLocals, runs, db>>

\* WebRunOnceStart with a fault: the manual run records itself as the last
\* run, as the scheduler's tick does
WebRunOnceStartStamps ==
    /\ caller = "web"
    /\ rpc = "idle"
    /\ webSpawned > 0
    /\ webSpawned' = webSpawned - 1
    /\ webRunning' = webRunning + 1
    /\ isRunning' = TRUE
    /\ disk' = File([LoadConfig(disk) EXCEPT
                       !.last_run_epoch = Some(now),
                       !.last_run_local_date = Some(LocalDate(now))])
    /\ rpc' = "list"
    /\ UNCHANGED <<now, advances, job, hist, checkRunning, tgSpawned, tgRunning, triggers,
                   decision, httpIn, unitVars, httpOut, checkVars, caller, runLocals, sends,
                   runs, db>>

\* _run_once lines 37-48: _is_running = True, run_full_check is entered
WebRunOnceStart ==
    /\ caller = "web"
    /\ rpc = "idle"
    /\ WebRunBeginStep
    /\ rpc' = "list"
    /\ UNCHANGED <<decision, httpIn, unitVars, httpOut, checkVars, caller, runLocals, sends,
                   runs, db>>

\* _run_once lines 49-89 and 98-99: failing is counted, the run record
\* appended, and with failing > 0 send_many is called, its exception caught
WebRunOnceReturned ==
    /\ caller = "web"
    /\ rpc = "returned"
    /\ runs' = AppendRun(runs, RunRecord("manual", results))
    /\ IF FailingCount(results) > 0
       THEN \E ok \in BOOLEAN : sends' = Append(sends, Send("alert", ok))
       ELSE UNCHANGED sends
    /\ WebRunEndStep
    /\ rpc' = "reported"
    /\ UNCHANGED <<decision, httpIn, unitVars, httpOut, checkVars, caller, runLocals, db>>

\* _run_once lines 90-99: the exception of run_full_check is caught and
\* logged; nothing is sent
WebRunOnceRaised ==
    /\ caller = "web"
    /\ rpc = "raised"
    /\ WebRunEndStep
    /\ rpc' = "failed"
    /\ UNCHANGED <<decision, httpIn, unitVars, httpOut, checkVars, caller, runLocals, sends,
                   runs, db>>

\* _run_check_in_background lines 163-175: _check_running = True, then inside
\* the try send_message("Starting domain check...") and, when that returned,
\* run_full_check
TgCheckStart ==
    /\ caller = "telegram"
    /\ rpc = "idle"
    /\ TgRunBeginStep
    /\ \/ /\ sends' = Append(sends, Send("starting", TRUE))
          /\ rpc' = "list"
       \/ /\ sends' = Append(sends, Send("starting", FALSE))
          /\ rpc' = "raised"
    /\ UNCHANGED <<decision, httpIn, unitVars, httpOut, checkVars, caller, runLocals, runs, db>>

\* what _run_check_in_background sends after append_run (lines 196-225): the
\* summary, with failing > 0 the alert, and after a send that raised the
\* "check failed" message of the except branch
TgSummarySends(failing) ==
    {<<Send("complete", FALSE), Send("check_failed", ok)>> : ok \in BOOLEAN}
    \cup (IF failing > 0
          THEN {<<Send("complete", TRUE), Send("alert", TRUE)>>}
               \cup {<<Send("complete", TRUE), Send("alert", FALSE),
                       Send("check_failed", ok)>> : ok \in BOOLEAN}
          ELSE {<<Send("complete", TRUE)>>})

\* _run_check_in_background lines 177-227 after run_full_check returned
TgCheckReturned ==
    /\ caller = "telegram"
    /\ rpc = "returned"
    /\ runs' = AppendRun(runs, RunRecord("telegram", results))
    /\ \E ss \in TgSummarySends(FailingCount(results)) : sends' = sends \o ss
    /\ TgRunEndStep
    /\ rpc' = "reported"
    /\ UNCHANGED <<decision, httpIn, unitVars, httpOut, checkVars, caller, runLocals, db>>

\* _run_check_in_background lines 220-227 after an exception of the first
\* send_message or of run_full_check
TgCheckRaised ==
    /\ caller = "telegram"
    /\ rpc = "raised"
    /\ \E ok \in BOOLEAN : sends' = Append(sends, Send("check_failed", ok))
    /\ TgRunEndStep
    /\ rpc' = "failed"
    /\ UNCHANGED <<decision, httpIn, unitVars, httpOut, checkVars, caller, runLocals, runs, db>>

\* run_check.main lines 33-36
MainStart ==
    /\ caller = "cli"
    /\ rpc = "idle"
    /\ rpc' = "list"
    /\ UNCHANGED <<schedVars, manualVars, decision, httpIn, unitVars, httpOut, checkVars,
                   caller, runLocals, sends, runs, db>>

\* main line 49: ok = all(ch.get("ok") for ch in checks) if checks else False
CheckResultRow(r) ==
    [campaign_id |-> r.campaign.id,
     ok |-> r.checks # <<>> /\ \A k \in 1..Len(r.checks) : r.checks[k].ok]

\* main lines 38-112: one CheckResult row per result; failing counts the
\* results with a failed check; the summary is sent, and with failing > 0
\* the details, each send's exception passed over
MainReturned ==
    /\ caller = "cli"
    /\ rpc = "returned"
    /\ db' = db \o [j \in 1..Len(results) |-> CheckResultRow(results[j])]
    /\ \E ok \in BOOLEAN :
          IF FailingCount(results) > 0
          THEN \E ok2 \in BOOLEAN :
                  sends' = sends \o <<Send("summary", ok), Send("alert", ok2)>>
          ELSE sends' = Append(sends, Send("summary", ok))
    /\ rpc' = "reported"
    /\ UNCHANGED <<schedVars, manualVars, decision, httpIn, unitVars, httpOut, checkVars,
                   caller, runLocals, runs>>

\* main line 36: an exception of run_full_check ends the process
MainRaised ==
    /\ caller = "cli"
    /\ rpc = "raised"
    /\ rpc' = "failed"
    /\ UNCHANGED <<schedVars, manualVars, decision, httpIn, unitVars, httpOut, checkVars,
                   caller, runLocals, sends, runs, db>>

(***************************************************************************)
(* Specifications                                                          *)
(***************************************************************************)
HHMM1700 == <<"1", "7", ":", "0", "0">>

HHMM0000 == <<"0", "0", ":", "0", "0">>

\* the config of a fresh deployment: no file, or what the dashboard's
\* POST /config saved before any scheduled run
FreshConfigs ==
    {NoFile}
    \cup {File(AppConfig("interval", i, HHMM1700, None, None)) : i \in {1, 2}}
    \cup {File(AppConfig("daily_at", 24 * 60, h, None, None)) : h \in {HHMM1700, HHMM0000}}

InitManual ==
    /\ isRunning = FALSE
    /\ checkRunning = FALSE
    /\ webSpawned = 0
    /\ webRunning = 0
    /\ tgSpawned = 0
    /\ tgRunning = 0
    /\ triggers = 0

Init ==
    /\ now \in StartTimes
    /\ advances = 0
    /\ disk \in FreshConfigs
    /\ job = IdleJob
    /\ hist = NoHist
    /\ InitManual
    /\ decision = "pending"
    /\ IdleHttp
    /\ IdleUnit
    /\ IdleCheck
    /\ IdleRun

\* the scheduler alone: ticks, the clock and process restarts
NextSched ==
    \/ Advance
    \/ JobTick
    \/ JobStamp
    \/ JobSave
    \/ JobRunStart
    \/ JobRunEnd
    \/ Crash

SpecSched == Init /\ [][NextSched]_vars

\* the scheduler together with the manual triggers
Next ==
    \/ Elapse
    \/ JobTick
    \/ JobStamp
    \/ JobSave
    \/ JobRunStart
    \/ JobRunEnd
    \/ Crash
    \/ RunNow
    \/ WebRunBegin
    \/ WebRunEnd
    \/ HandleCheckCommand
    \/ TgRunBegin
    \/ TgRunEnd

Spec == Init /\ [][Next]_vars

(***************************************************************************)
(* should_run_now as a function of the config and the clock                *)
(***************************************************************************)
HHMM2359 == <<"2", "3", ":", "5", "9">>

HHMM0930 == <<"9", ":", "3", "0">>

\* run_at_hhmm values: well formed, padded with blanks, and malformed
HHMMValues ==
    {HHMM1700, HHMM0000, HHMM2359, HHMM0930,
     <<" ", "1", "7", ":", "0", "0", " ">>,
     <<>>, <<"a", "b", "c">>, <<"1", "7">>, <<"1", ":", "2", ":", "3">>,
     <<"2", "5", ":", "0", "0">>, <<"1", "7", ":", "6", "0">>}

ModeValues == {"interval", "daily_at", "Interval", ""}

IntervalValues == {1, 2, 24 * 60}

\* clock readings on local day 2: midnight, 09:30:00, 16:59:59, 17:00:00,
\* 23:59:00 and 23:59:59
DueNows ==
    {LocalToEpoch(2, s) :
        s \in {0, 9 * 3600 + 30 * 60, 17 * 3600 - 1, 17 * 3600, 23 * 3600 + 59 * 60,
               23 * 3600 + 59 * 60 + 59}}

\* configs whose last_run_epoch lies a second around one interval before t
\* and whose last_run_local_date lies a day around the local date of t
DueConfigs(t) ==
    UNION {{AppConfig(m, i, h, e, d) :
                m \in ModeValues, h \in HHMMValues,
                e \in {None} \cup {Some(t - i * 60 + k) : k \in -1..1},
                d \in {None} \cup {Some(LocalDate(t) + k) : k \in -1..1}} :
           i \in IntervalValues}

InitDue ==
    /\ now \in DueNows
    /\ advances = 0
    /\ disk \in {File(c) : c \in DueConfigs(now)}
    /\ job = IdleJob
    /\ hist = NoHist
    /\ InitManual
    /\ decision = "pending"
    /\ IdleHttp
    /\ IdleUnit
    /\ IdleCheck
    /\ IdleRun

\* _job lines 18-19: should_run_now(load_config())
CallShouldRunNow ==
    /\ decision = "pending"
    /\ decision' = ShouldRunNow(LoadConfig(disk), now)
    /\ UNCHANGED <<schedVars, manualVars, httpIn, unitVars, httpOut, checkVars, runVars>>

NextDue == CallShouldRunNow

SpecDue == InitDue /\ [][NextDue]_vars

(***************************************************************************)
(* Claims about the scheduler and the manual triggers                      *)
(***************************************************************************)
ManualInFlight == webRunning + tgRunning

\* C1: with unchanged schedule settings, two consecutive scheduled runs were
\* triggered at least interval_minutes*60 seconds apart (interval mode) and on
\* different local calendar dates (daily_at mode), also when the earlier run
\* raised or the process stopped in the middle of it.
C1_AtMostOneRunPerPeriod ==
    (hist.prev # None /\ hist.last # None) =>
        LET cfg == LoadConfig(disk)
        IN  IF ModeOf(cfg) = "interval"
            THEN hist.last[1] - hist.prev[1] >= cfg.interval_minutes * 60
            ELSE LocalDate(hist.last[1]) > LocalDate(hist.prev[1])

\* a second run triggered exactly one interval after a run the process
\* stopped in the middle of
C1_Witness ==
    /\ hist.prev # None
    /\ hist.last # None
    /\ hist.prevEnd = "crashed"
    /\ ModeOf(LoadConfig(disk)) = "interval"
    /\ hist.last[1] - hist.prev[1] = LoadConfig(disk).interval_minutes * 60

\* C2: while the scheduled run executes (its first gateway call made), the
\* persisted config already holds this tick's bookkeeping: last_run_epoch is
\* the clock read after the tick was judged due, last_run_local_date the local
\* date read after that.
C2_SavedBeforeRun ==
    job.pc = "running" =>
        /\ disk = File(job.cfg)
        /\ job.cfg.last_run_epoch # None
        /\ job.cfg.last_run_epoch[1] \in job.decided..now
        /\ job.cfg.last_run_local_date # None
        /\ job.cfg.last_run_local_date[1] \in
               LocalDate(job.cfg.last_run_epoch[1])..LocalDate(now)

\* a daily_at run in progress whose bookkeeping carries today's date
C2_Witness ==
    /\ job.pc = "running"
    /\ ModeOf(job.cfg) = "daily_at"
    /\ disk # NoFile
    /\ disk[1].last_run_local_date = Some(LocalDate(now))
    /\ disk[1].last_run_epoch = Some(now)

\* C3: at most one manually triggered run is in flight, and a manual trigger
\* that arrives while one is in flight starts no run.
C3_ManualTriggersExclusive ==
    [][/\ ManualInFlight' <= 1
       /\ (ManualInFlight >= 1 /\ triggers' > triggers) =>
              (webSpawned' <= webSpawned /\ tgSpawned' <= tgSpawned)]_vars

\* C4: a manually triggered run and a scheduled run never execute
\* run_full_check at the same time.
C4_ManualAndScheduledExclusive ==
    ~(job.pc = "running" /\ ManualInFlight >= 1)

(***************************************************************************)
(* Claims about should_run_now                                             *)
(***************************************************************************)
\* C5: in interval mode should_run_now is true iff last_run_epoch is unset or
\* now - last_run_epoch >= interval_minutes*60; it is due one second past the
\* interval and not due one second short of it.
C5_IntervalDue ==
    LET cfg == LoadConfig(disk)
        secs == cfg.interval_minutes * 60
    IN  (decision # "pending" /\ ModeOf(cfg) = "interval") =>
            /\ decision = "due" <=>
                   (cfg.last_run_epoch = None \/ now - cfg.last_run_epoch[1] >= secs)
            /\ decision \in {"due", "not_due"}
            /\ cfg.last_run_epoch = Some(now - secs - 1) => decision = "due"
            /\ cfg.last_run_epoch = Some(now - secs + 1) => decision = "not_due"

\* the last run lies exactly one interval back and the tick is due
C5_Witness ==
    /\ decision = "due"
    /\ ModeOf(LoadConfig(disk)) = "interval"
    /\ LoadConfig(disk).last_run_epoch =
           Some(now - LoadConfig(disk).interval_minutes * 60)

\* well-formed run_at_hhmm values and the second of the day each names
WellFormedHHMM ==
    {<<HHMM1700, 17 * 3600>>, <<HHMM0000, 0>>, <<HHMM2359, 23 * 3600 + 59 * 60>>,
     <<HHMM0930, 9 * 3600 + 30 * 60>>}

\* C6: in daily_at mode should_run_now is true iff last_run_local_date is not
\* today's local date and the local time is at or after run_at_hhmm; with
\* last_run_local_date = today it is not due at any time of day.
C6_DailyDue ==
    LET cfg == LoadConfig(disk)
    IN  (decision # "pending" /\ ModeOf(cfg) = "daily_at") =>
            /\ \A w \in WellFormedHHMM :
                   cfg.run_at_hhmm = w[1] =>
                       (decision = "due" <=>
                            /\ cfg.last_run_local_date # Some(LocalDate(now))
                            /\ SecOfDay(now) >= w[2])
            /\ cfg.last_run_local_date = Some(LocalDate(now)) => decision = "not_due"

\* already run today: not due although the time of day is past run_at_hhmm
C6_Witness ==
    /\ decision = "not_due"
    /\ ModeOf(LoadConfig(disk)) = "daily_at"
    /\ LoadConfig(disk).last_run_local_date = Some(LocalDate(now))
    /\ LoadConfig(disk).run_at_hhmm = HHMM0930
    /\ SecOfDay(now) = 17 * 3600

(***************************************************************************)
(* Specifications of the health checker                                    *)
(***************************************************************************)
StatusValues == {199, 200, 204, 301, 399, 400, 404, 500}

BodyValues ==
    {Body(l, c, t) : l \in {0, 3}, c \in {0, 50, 199, 200, 500}, t \in {0, 3}}

HttpOutcomes ==
    ErrorOutcomes
    \cup {Response(st, ct, b) :
            st \in StatusValues, ct \in HtmlContentTypes \cup OtherContentTypes,
            b \in BodyValues}

TrackingUrl == Url("https", "trk.example")

\* the scheduler and the manual triggers at rest
InitIdleApp ==
    /\ now = LocalToEpoch(1, 17 * 3600)
    /\ advances = 0
    /\ disk = NoFile
    /\ job = IdleJob
    /\ hist = NoHist
    /\ InitManual
    /\ decision = "pending"

InitHttp ==
    /\ InitIdleApp
    /\ IdleCheck
    /\ IdleUnit
    /\ IdleRun
    /\ httpIn \in HttpOutcomes
    /\ httpOut = None

\* run_full_check line 248: res = http_check(url)
CallHttpCheck ==
    /\ httpOut = None
    /\ httpOut' = Some(HttpCheck(TrackingUrl, httpIn))
    /\ UNCHANGED <<schedVars, manualVars, decision, httpIn, unitVars, checkVars, runVars>>

NextHttp == CallHttpCheck

SpecHttp == InitHttp /\ [][NextHttp]_vars

\* what extract_urls_from_campaign and the lookups may give for a campaign
TrackingUrls == {None, Some(TrackingUrl), Some(Url("", ""))}

DomainNames == {None, Some("cdn.example")}

LandingLists == {<<>>, <<Url("https", "lp.example")>>}

InitCheck ==
    /\ InitIdleApp
    /\ IdleHttp
    /\ IdleUnit
    /\ IdleRun
    /\ \E t \in TrackingUrls, d \in DomainNames, l \in LandingLists :
          targets = UrlsToCheck(t, d, l)
    /\ ti = 1
    /\ cpc = IF targets = <<>> THEN "done" ELSE "target"
    /\ attempt = 0
    /\ best = None
    /\ checks = <<>>
    /\ dnsCalls = 0
    /\ dnsResult = "none"
    /\ attemptLog = <<>>

NextCheck ==
    \/ CheckTargetDns
    \/ HttpAttempt
    \/ AppendCheck

SpecCheck == InitCheck /\ [][NextCheck]_vars

(***************************************************************************)
(* filter_campaigns_with_activity as a function of the campaign list and   *)
(* the report rows                                                         *)
(***************************************************************************)
Nulls == <<JNull, JNull, JNull, JNull>>

\* the id keys of a row: a known id as a string or as a number, under the
\* first or a later key; no id; an empty first id; an unknown id; a campaign
\* title under "campaign" ahead of the id under "campaignId"
RowIdValues ==
    {<<JStr(<<"1">>), JNull, JNull, JNull>>,
     <<JNum(1), JNull, JNull, JNull>>,
     <<JNull, JNum(2), JNull, JNull>>,
     Nulls,
     <<JStr(<<>>), JStr(<<"1">>), JNull, JNull>>,
     <<JStr(<<"9">>), JNull, JNull, JNull>>,
     <<JNull, JNull, JStr(<<"x">>), JStr(<<"1">>)>>}

\* the cost keys: absent, zero, positive, a text that is no number ahead of a
\* number, a "0" text ahead of a number, negative, a padded numeric text
RowCostValues ==
    {Nulls,
     <<JNum(0), JNull, JNull, JNull>>,
     <<JNum(10), JNull, JNull, JNull>>,
     <<JStr(<<"a">>), JNum(5), JNull, JNull>>,
     <<JStr(<<"0">>), JNum(7), JNull, JNull>>,
     <<JNum(0 - 3), JNull, JNull, JNull>>,
     <<JNull, JNull, JNull, JStr(<<" ", "1", "2", " ">>)>>}

RowRevValues ==
    {Nulls, <<JNum(0), JNull, JNull, JNull>>, <<JNull, JNum(4), JNull, JNull>>}

\* every id with no spend and with spend, and every cost and revenue for the
\* id "1"
RowValues ==
    {ReportRow(i, c, Nulls) :
        i \in RowIdValues, c \in {Nulls, <<JNum(10), JNull, JNull, JNull>>}}
    \cup {ReportRow(<<JStr(<<"1">>), JNull, JNull, JNull>>, c, r) :
            c \in RowCostValues, r \in RowRevValues}

MaxRows == 2

RowLists == UNION {[1..n -> RowValues] : n \in 0..MaxRows}

BareCampaign(id) == Campaign(id, None, None, <<>>)

FilterCampaignLists ==
    {<<>>,
     <<BareCampaign(JStr(<<"1">>))>>,
     <<BareCampaign(JStr(<<"1">>)), BareCampaign(JNum(2))>>,
     <<BareCampaign(JNull), BareCampaign(JNum(1))>>}

InitFilter ==
    /\ InitIdleApp
    /\ IdleHttp
    /\ IdleUnit
    /\ IdleCheck
    /\ caller = "none"
    /\ rpc = "filter"
    /\ gateway = NoGateway
    /\ campaigns \in FilterCampaignLists
    /\ reportRows \in RowLists
    /\ activeMap = EmptyMap
    /\ ci = 1
    /\ cur = NoCurrent
    /\ domainCache = EmptyMap
    /\ landingCache = EmptyMap
    /\ results = <<>>
    /\ calls = <<>>
    /\ sends = <<>>
    /\ runs = <<>>
    /\ db = <<>>

\* run_full_check line 180
CallFilter ==
    /\ rpc = "filter"
    /\ activeMap' = FilterCampaignsWithActivity(campaigns, reportRows)
    /\ rpc' = "filtered"
    /\ UNCHANGED <<schedVars, manualVars, decision, httpIn, unitVars, httpOut, checkVars,
                   caller, gateway, campaigns, reportRows, ci, cur, domainCache,
                   landingCache, results, calls, sends, runs, db>>

NextFilter == CallFilter

SpecFilter == InitFilter /\ [][NextFilter]_vars

(***************************************************************************)
(* run_full_check over what the gateway holds                              *)
(***************************************************************************)
D1 == <<"d", "1">>

L1 == <<"l", "1">>

L2 == <<"l", "2">>

\* a report row with spend, and one without, for the campaign id
SpendRow(id) == ReportRow(<<id, JNull, JNull, JNull>>, <<JNum(10), JNull, JNull, JNull>>, Nulls)

NoSpendRow(id) == ReportRow(<<id, JNull, JNull, JNull>>, <<JNum(0), JNull, JNull, JNull>>, Nulls)

\* the domain d1 names a host; the landing l1 has a URL, the landing l2 none
Domains == Put(EmptyMap, D1, Some("cdn.example"))

Landings == Put(Put(EmptyMap, L1, Some(Url("https", "lp.example"))), L2, None)

\* two campaigns on one domain with a campaign without any URL between them
SharedDomain ==
    <<Campaign(JStr(<<"1">>), None, Some(D1), <<>>),
      Campaign(JNum(2), None, None, <<>>),
      Campaign(JStr(<<"3">>), None, Some(D1), <<>>)>>

\* two campaigns sharing a landing; the second has a tracking URL without a
\* host and a landing without a URL
SharedLanding ==
    <<Campaign(JStr(<<"1">>), None, None, <<L1>>),
      Campaign(JNum(2), Some(Url("", "")), None, <<L1, L2>>)>>

\* one campaign with a tracking URL, a domain and a landing
FullCampaign == <<Campaign(JStr(<<"1">>), Some(TrackingUrl), Some(D1), <<L1>>)>>

RunGateways ==
    {Gateway(SharedDomain, rows, Domains, Landings) :
        rows \in {<<SpendRow(JNum(1)), SpendRow(JNum(2)), SpendRow(JNum(3))>>,
                  <<SpendRow(JNum(1)), NoSpendRow(JNum(2)), SpendRow(JNum(3))>>,
                  <<SpendRow(JNum(2))>>,
                  <<>>}}
    \cup {Gateway(SharedLanding, rows, Domains, Landings) :
            rows \in {<<SpendRow(JNum(1)), SpendRow(JNum(2))>>, <<SpendRow(JNum(2))>>}}
    \cup {Gateway(FullCampaign, <<SpendRow(JNum(1))>>, Domains, Landings)}

\* the entry of run_full_check
InitRun ==
    /\ InitIdleApp
    /\ IdleHttp
    /\ IdleUnit
    /\ IdleCheck
    /\ caller = "none"
    /\ rpc = "list"
    /\ gateway \in RunGateways
    /\ campaigns = <<>>
    /\ reportRows = <<>>
    /\ activeMap = EmptyMap
    /\ ci = 1
    /\ cur = NoCurrent
    /\ domainCache = EmptyMap
    /\ landingCache = EmptyMap
    /\ results = <<>>
    /\ calls = <<>>
    /\ sends = <<>>
    /\ runs = <<>>
    /\ db = <<>>

NextRun ==
    \/ ListActiveCampaigns
    \/ ReportByCampaign
    \/ SkipCampaign
    \/ GetCampaign
    \/ DomainLookup
    \/ LandingLookup
    \/ StartChecks
    \/ CheckTargetDns
    \/ HttpAttempt
    \/ AppendCheck
    \/ AppendResult
    \/ ReturnResults

SpecRun == InitRun /\ [][NextRun]_vars

(***************************************************************************)
(* One run by each of its callers                                          *)
(***************************************************************************)
\* a campaign with a tracking URL and a campaign whose one landing has no URL
SmallAccount ==
    <<Campaign(JStr(<<"1">>), Some(TrackingUrl), None, <<>>),
      Campaign(JNum(2), None, None, <<L2>>)>>

PathGateways ==
    {Gateway(SmallAccount, rows, Domains, Landings) :
        rows \in {<<SpendRow(JNum(1)), SpendRow(JNum(2))>>,
                  <<SpendRow(JNum(1))>>,
                  <<SpendRow(JNum(2))>>,
                  <<>>}}

\* the config a scheduled run left behind at the clock reading t
RanAt(cfg, t) ==
    [cfg EXCEPT !.last_run_epoch = Some(t), !.last_run_local_date = Some(LocalDate(t))]

\* the caller is the scheduler with a tick that is due, or a _run_once
\* thread, a _run_check_in_background thread or the command line while the
\* scheduler has run in this period
InitPaths ==
    /\ now = LocalToEpoch(1, 17 * 3600)
    /\ advances = 0
    /\ job = IdleJob
    /\ hist = NoHist
    /\ caller \in {"scheduled", "web", "telegram", "cli"}
    /\ disk \in IF caller = "scheduled"
                THEN FreshConfigs
                ELSE {File(RanAt(LoadConfig(f), now)) : f \in FreshConfigs}
    /\ isRunning = FALSE
    /\ checkRunning = FALSE
    /\ webSpawned = (IF caller = "web" THEN 1 ELSE 0)
    /\ webRunning = 0
    /\ tgSpawned = (IF caller = "telegram" THEN 1 ELSE 0)
    /\ tgRunning = 0
    /\ triggers = (IF caller \in {"web", "telegram"} THEN 1 ELSE 0)
    /\ decision = "pending"
    /\ IdleHttp
    /\ IdleUnit
    /\ IdleCheck
    /\ rpc = "idle"
    /\ gateway \in PathGateways
    /\ campaigns = <<>>
    /\ reportRows = <<>>
    /\ activeMap = EmptyMap
    /\ ci = 1
    /\ cur = NoCurrent
    /\ domainCache = EmptyMap
    /\ landingCache = EmptyMap
    /\ results = <<>>
    /\ calls = <<>>
    /\ sends = <<>>
    /\ runs = <<>>
    /\ db = <<>>

NextPaths ==
    \/ Wait
    \/ JobTick
    \/ JobStamp
    \/ JobSave
    \/ ScheduledRunStart
    \/ ScheduledRunReturned
    \/ ScheduledRunRaised
    \/ WebRunOnceStart
    \/ WebRunOnceReturned
    \/ WebRunOnceRaised
    \/ TgCheckStart
    \/ TgCheckReturned
    \/ TgCheckRaised
    \/ MainStart
    \/ MainReturned
    \/ MainRaised
    \/ NextRun

SpecPaths == InitPaths /\ [][NextPaths]_vars

(***************************************************************************)
(* Claims about the health checker                                         *)
(***************************************************************************)
\* the loop has finished with a target (the one at ti - 1)
TargetHandled == cpc \in {"target", "done"} /\ ti > 1

\* C7: for a check target, http_check is attempted at most CHECK_RETRIES + 1
\* times, no attempt follows a successful one, and the entry recorded for the
\* target is the result of the last attempt made.
C7_RetriesCappedLastKept ==
    /\ Len(attemptLog) <= CHECK_RETRIES + 1
    /\ \A j \in 1..(Len(attemptLog) - 1) : ~attemptLog[j].ok
    /\ (TargetHandled /\ attemptLog # <<>>) =>
           /\ Len(checks) = ti - 1
           /\ checks[ti - 1] =
                  CheckEntry(targets[ti - 1][1], attemptLog[Len(attemptLog)])

\* a target whose last allowed attempt succeeded after CHECK_RETRIES failures
C7_Witness ==
    /\ TargetHandled
    /\ Len(attemptLog) = CHECK_RETRIES + 1
    /\ checks[ti - 1].ok
    /\ ~attemptLog[1].ok

\* C8: for a target whose host fails DNS resolution exactly one entry is
\* recorded, with ok = false and failure_type "dns"; no http_check attempt is
\* made for it and dns_check is called once.
C8_DnsFailureShortCircuits ==
    (TargetHandled /\ dnsResult = "fail") =>
        /\ Len(checks) = ti - 1
        /\ checks[ti - 1].kind = targets[ti - 1][1]
        /\ checks[ti - 1].ok = FALSE
        /\ checks[ti - 1].failure_type = "dns"
        /\ checks[ti - 1].http_status = None
        /\ attemptLog = <<>>
        /\ attempt = 0
        /\ dnsCalls = 1

\* a DNS failure on the second target, after a first target that was checked
\* over HTTP
C8_Witness ==
    /\ TargetHandled
    /\ dnsResult = "fail"
    /\ ti = 3
    /\ checks[1].failure_type # "dns"

\* the UrlCheck results at hand: the entries recorded, best, and the results of
\* the attempts
ResultsProduced ==
    {checks[i] : i \in 1..Len(checks)}
    \cup {CheckEntry("attempt", attemptLog[i]) : i \in 1..Len(attemptLog)}
    \cup {CheckEntry("best", best[i]) : i \in 1..Len(best)}

\* C9: every UrlCheck result has failure_type none when ok, and one of dns,
\* timeout, http, other when not ok.
C9_FailureTypeMatchesOk ==
    \A r \in ResultsProduced :
        /\ r.ok => r.failure_type = "none"
        /\ ~r.ok => r.failure_type \in {"dns", "timeout", "http", "other"}

\* a checks list holding a success, a dns failure and an http failure
C9_Witness ==
    /\ \E i \in 1..Len(checks) : checks[i].ok
    /\ \E i \in 1..Len(checks) : checks[i].failure_type = "dns"
    /\ \E i \in 1..Len(checks) : checks[i].failure_type = "http"

\* C10: for a response, http_check returns ok iff the status is in [200,400)
\* and the content type is not HTML or the trimmed body has at least 200
\* characters; otherwise ok = false with failure_type "http", the message
\* saying "content too small" exactly when the status was good and the HTML
\* body short.
C10_ResponseClassification ==
    (httpOut # None /\ httpIn.kind = "response") =>
        LET r == httpOut[1]
            goodStatus == httpIn.status \in 200..399
            html == httpIn.ctype \in {"text/html", "text/html; charset=utf-8", "TEXT/HTML"}
            trimmed == httpIn.body.core
        IN  /\ r.ok <=> (goodStatus /\ (~html \/ trimmed >= 200))
            /\ r.http_status = Some(httpIn.status)
            /\ ~r.ok =>
                   /\ r.failure_type = "http"
                   /\ r.message # None
                   /\ r.message[1].too_small <=> (goodStatus /\ html /\ trimmed < 200)
            /\ (goodStatus /\ ~html) => r.ok

\* status 200, text/html, a body of 50 characters padded with blanks: rejected
\* as too small
C10_Witness ==
    /\ httpOut # None
    /\ httpIn = Response(200, "text/html", Body(3, 50, 3))
    /\ ~httpOut[1].ok
    /\ httpOut[1].failure_type = "http"
    /\ httpOut[1].message[1].too_small

(***************************************************************************)
(* Claims about the Activity Filter and the pass over the campaigns        *)
(***************************************************************************)
RowCost(row) == OrZero(PickNumber(row, CostKeys))

RowRevenue(row) == OrZero(PickNumber(row, RevKeys))

\* C12: every entry of the Activity Filter's output has as key the stringified
\* id of a campaign of the list and has cost > 0 or revenue > 0, and is the
\* cost and revenue of a report row with that id; rows with cost = 0 and
\* revenue = 0, and rows whose id is not in the list, contribute no entry.
C12_FilterOutput ==
    rpc = "filtered" =>
        /\ \A k \in DOMAIN activeMap :
               /\ \E i \in 1..Len(campaigns) :
                      campaigns[i].id.t # "null" /\ PyStr(campaigns[i].id) = k
               /\ activeMap[k].cost_30d > 0 \/ activeMap[k].revenue_30d > 0
               /\ \E j \in 1..Len(reportRows) :
                      /\ RowCid(reportRows[j]) = Some(k)
                      /\ activeMap[k] = Stats(RowCost(reportRows[j]),
                                              RowRevenue(reportRows[j]))
        /\ (\A j \in 1..Len(reportRows) :
                \/ RowCost(reportRows[j]) = 0 /\ RowRevenue(reportRows[j]) = 0
                \/ RowCid(reportRows[j]) = None
                \/ RowCid(reportRows[j])[1] \notin CampaignIds(campaigns))
           => activeMap = EmptyMap

\* a row with spend for campaign "1" followed by a row with spend for an id
\* that is not in the list: only "1" is retained
C12_Witness ==
    /\ rpc = "filtered"
    /\ Len(reportRows) = 2
    /\ RowCid(reportRows[1]) = Some(<<"1">>)
    /\ RowCid(reportRows[2]) = Some(<<"9">>)
    /\ RowCost(reportRows[2]) > 0
    /\ DOMAIN activeMap = {<<"1">>}

\* the campaigns of the list that are in active_map, in list order
Retained == SelectSeq(campaigns, LAMBDA c : PyStr(c.id) \in DOMAIN activeMap)

\* the check targets of a campaign, given what the lookups of the run found
TargetsOf(c) ==
    UrlsToCheck(c.tracking_url,
                IF c.domain_id # None /\ c.domain_id[1] \in DOMAIN domainCache
                THEN domainCache[c.domain_id[1]] ELSE None,
                LET RECURSIVE Urls(_)
                    Urls(ids) ==
                        IF ids = <<>> THEN <<>>
                        ELSE (IF Head(ids) \in DOMAIN landingCache
                              THEN landingCache[Head(ids)] ELSE <<>>)
                             \o Urls(Tail(ids))
                IN  Urls(c.landing_ids))

\* C11: a failure of a URL check never ends the pass: the run stops inside
\* run_full_check only between campaigns (at a gateway call), every target the
\* loop has passed has its entry, every Campaign Result has one entry per
\* check target of its campaign, and a run that returns has checked every
\* retained campaign.
C11_UrlFailuresNeverAbort ==
    /\ rpc = "raised" => cpc = "done"
    /\ rpc = "checks" => Len(checks) = ti - 1
    /\ \A j \in 1..Len(results) :
           /\ j <= Len(Retained)
           /\ Len(results[j].checks) = Len(TargetsOf(Retained[j]))
           /\ \A k \in 1..Len(results[j].checks) :
                  /\ results[j].checks[k].kind = TargetsOf(Retained[j])[k][1]
                  /\ results[j].checks[k].tested_url = Some(TargetsOf(Retained[j])[k][2])
    /\ rpc = "returned" => Len(results) = Len(Retained)

\* a run that returned two results after an unexpected exception and a DNS
\* failure in the first campaign and a timeout in the second
C11_Witness ==
    /\ rpc = "returned"
    /\ Len(results) = 2
    /\ Len(results[1].checks) = 2
    /\ results[1].checks[1].failure_type = "other"
    /\ results[1].checks[2].failure_type = "dns"
    /\ Len(results[2].checks) = 2
    /\ results[2].checks[1].failure_type = "timeout"
    /\ results[2].checks[2].ok

\* the gateway calls of the run for the operation op, in order
CallsOf(op) == SelectSeq(calls, LAMBDA c : c.op = op)

\* C13: get_campaign is never called for a campaign that is not in the
\* Activity Filter's output, and no domain lookup, landing lookup or URL check
\* is made on its behalf: every get_campaign call names a retained campaign,
\* the campaign in hand is a retained one, every get_domain and get_landing
\* call names an id of a retained campaign, and every Campaign Result is that
\* of a retained campaign.
C13_NoWorkForUnretained ==
    /\ \A i \in 1..Len(calls) :
           /\ calls[i].op = "get_campaign" => calls[i].id \in DOMAIN activeMap
           /\ calls[i].op = "get_domain" =>
                  \E j \in 1..Len(Retained) : Retained[j].domain_id = Some(calls[i].id)
           /\ calls[i].op = "get_landing" =>
                  \E j \in 1..Len(Retained) :
                      \E k \in 1..Len(Retained[j].landing_ids) :
                          Retained[j].landing_ids[k] = calls[i].id
    /\ rpc \in {"domain", "landing", "checks"} => cur.cid \in DOMAIN activeMap
    /\ \A j \in 1..Len(results) : results[j].campaign.id \in DOMAIN activeMap
    /\ Len(CallsOf("get_campaign")) <= Len(Retained)

\* three campaigns listed, the second without spend: get_campaign was called
\* for the first and the third only
C13_Witness ==
    /\ rpc = "returned"
    /\ Len(campaigns) = 3
    /\ DOMAIN activeMap = {<<"1">>, <<"3">>}
    /\ Len(CallsOf("get_campaign")) = 2
    /\ CallsOf("get_campaign")[1].id = <<"1">>
    /\ CallsOf("get_campaign")[2].id = <<"3">>

\* C14: within a run no two get_domain calls name the same domain id and no
\* two get_landing calls the same landing id, whether the calls returned or
\* raised.
C14_LookupsOncePerId ==
    \A i, j \in 1..Len(calls) :
        (i < j /\ calls[i].op \in {"get_domain", "get_landing"}) =>
            ~(calls[i].op = calls[j].op /\ calls[i].id = calls[j].id)

\* two campaigns on the domain d1 were checked although the one get_domain
\* call for d1 raised
C14_Witness ==
    /\ rpc = "returned"
    /\ Len(results) = 3
    /\ results[1].campaign.domain_id = Some(D1)
    /\ results[3].campaign.domain_id = Some(D1)
    /\ CallsOf("get_domain") = <<Call("get_domain", D1, FALSE)>>

\* the entries of kinds ks among the checks cks
EntriesOf(cks, ks) == SelectSeq(cks, LAMBDA e : e.kind \in ks)

\* C15: a get_domain or get_landing call that raises ends neither the run nor
\* the campaign: the run stops only at list_active_campaigns,
\* report_by_campaign or get_campaign; in the Campaign Result of a campaign
\* whose lookup raised there is no entry for that id, the entries of its other
\* targets are there, and a run that returns has a result for every retained
\* campaign.
C15_LookupErrorsAbsorbed ==
    /\ rpc = "raised" =>
           calls[Len(calls)].op \in
               {"list_active_campaigns", "report_by_campaign", "get_campaign"}
    /\ \A j \in 1..Len(results) :
           LET c == Retained[j]
               cks == results[j].checks
               failedIds == {calls[i].id : i \in {k \in 1..Len(calls) : ~calls[k].ok}}
           IN  /\ (c.domain_id # None /\ c.domain_id[1] \in failedIds) =>
                      /\ results[j].campaign.domain_name = None
                      /\ EntriesOf(cks, {"domain_https", "domain_http"}) = <<>>
               /\ Len(EntriesOf(cks, {"tracking"})) =
                      (IF c.tracking_url # None THEN 1 ELSE 0)
               /\ (c.domain_id # None /\ c.domain_id[1] \notin failedIds
                     /\ gateway.domains[c.domain_id[1]] # None) =>
                      Len(EntriesOf(cks, {"domain_https", "domain_http"})) = 2
               /\ Len(EntriesOf(cks, {"landing"})) =
                      Cardinality({k \in 1..Len(c.landing_ids) :
                                      /\ c.landing_ids[k] \notin failedIds
                                      /\ gateway.landings[c.landing_ids[k]] # None})
    /\ rpc = "returned" => Len(results) >= Len(Retained)

\* a campaign whose get_domain call raised and whose get_landing call
\* returned: its result holds the tracking and the landing entry
C15_Witness ==
    /\ rpc = "returned"
    /\ Len(results) = 1
    /\ Call("get_domain", D1, FALSE) \in {calls[i] : i \in 1..Len(calls)}
    /\ Call("get_landing", L1, TRUE) \in {calls[i] : i \in 1..Len(calls)}
    /\ Len(results[1].checks) = 2
    /\ results[1].checks[1].kind = "tracking"
    /\ results[1].checks[2].kind = "landing"

\* C16: the results of run_full_check are one Campaign Result for each
\* retained campaign, in the order of the campaign list, with the stats of the
\* Activity Filter; a retained campaign without check targets has its result,
\* with an empty checks list.
C16_OneResultPerRetained ==
    /\ Len(results) <= Len(Retained)
    /\ \A j \in 1..Len(results) :
           /\ results[j].campaign.id = PyStr(Retained[j].id)
           /\ results[j].stats = activeMap[PyStr(Retained[j].id)]
           /\ TargetsOf(Retained[j]) = <<>> => results[j].checks = <<>>
    /\ rpc = "returned" => Len(results) = Len(Retained)

\* three retained campaigns, the second without a check target
C16_Witness ==
    /\ rpc = "returned"
    /\ Len(results) = 3
    /\ results[1].checks # <<>>
    /\ results[2].checks = <<>>
    /\ results[3].checks # <<>>
    /\ results[2].campaign.id = <<"2">>

(***************************************************************************)
(* The notification batcher (telegram.send_many)                           *)
(*                                                                         *)
(* A line is known by its length and by how many of its last characters    *)
(* are whitespace; a chunk is the sequence of the lines added to it, each  *)
(* followed by a newline.                                                  *)
(***************************************************************************)
\* the per-message character budget
MessageBudget == 3800

Line(len, trail) == [len |-> len, trail |-> trail]

\* len(chunk)
RECURSIVE ChunkLen(_)
ChunkLen(chunk) ==
    IF chunk = <<>> THEN 0
    ELSE ChunkLen(SubSeq(chunk, 1, Len(chunk) - 1)) + chunk[Len(chunk)].len + 1

\* len(chunk.rstrip()): the last newline goes, and with it the trailing
\* whitespace of the last line, and so on through lines that are all blank
RECURSIVE RStripLen(_)
RStripLen(chunk) ==
    IF chunk = <<>> THEN 0
    ELSE LET last == chunk[Len(chunk)]
             front == SubSeq(chunk, 1, Len(chunk) - 1)
         IN  IF last.trail = last.len THEN RStripLen(front)
             ELSE ChunkLen(front) + last.len - last.trail

\* chunk.strip() is empty
IsBlank(chunk) == \A i \in 1..Len(chunk) : chunk[i].trail = chunk[i].len

\* a send_message call made by send_many: the length of its text, how many
\* lines it carries, and whether the channel took it
Sent(len, lines, ok) == [len |-> len, lines |-> lines, ok |-> ok]

\* send_many(lines, max_messages, header) called
SendManyCall(lines, max_messages, header) ==
    [pc |-> "header", lines |-> lines, max_messages |-> max_messages,
     header |-> header, i |-> 1, chunk |-> <<>>, sent |-> 0, out |-> <<>>]

\* lines 32-36: the header, when given, is a message of the budget
SendManyHeader ==
    /\ batch.pc = "header"
    /\ \E ok \in BOOLEAN :
         LET max == IF batch.header THEN batch.max_messages - 1
                    ELSE batch.max_messages
             out == IF batch.header THEN <<Sent(1, 0, ok)>> ELSE <<>>
         IN  batch' = [batch EXCEPT
                 !.out = out,
                 !.max_messages = max,
                 !.pc = IF batch.header /\ ~ok THEN "raised"
                        ELSE IF max <= 0 THEN "returned" ELSE "loop"]
    /\ UNCHANGED <<schedVars, manualVars, decision, httpIn, httpOut, raceVars, appended, store,
                   req, extraction, checkVars, runVars>>

\* SendManyLine with a fault: the count of messages is not tested after a flush
SendManyLineUncapped ==
    /\ batch.pc = "loop"
    /\ batch.i <= Len(batch.lines)
    /\ LET add == batch.lines[batch.i]
       IN  IF ChunkLen(batch.chunk) + add.len + 1 > MessageBudget
           THEN \E ok \in BOOLEAN :
                  batch' = [batch EXCEPT
                      !.out = @ \o <<Sent(RStripLen(batch.chunk), Len(batch.chunk), ok)>>,
                      !.sent = IF ok THEN @ + 1 ELSE @,
                      !.chunk = IF ok THEN <<add>> ELSE @,
                      !.i = IF ok THEN @ + 1 ELSE @,
                      !.pc = IF ~ok THEN "raised" ELSE "loop"]
           ELSE batch' = [batch EXCEPT !.chunk = @ \o <<add>>, !.i = @ + 1]
    /\ UNCHANGED <<schedVars, manualVars, decision, httpIn, httpOut, raceVars, appended, store,
                   req, extraction, checkVars, runVars>>

\* lines 40-48, one turn of "for line in lines": a line that does not fit
\* flushes the chunk as one message, and the loop returns when that message
\* was the last one allowed
SendManyLine ==
    /\ batch.pc = "loop"
    /\ batch.i <= Len(batch.lines)
    /\ LET add == batch.lines[batch.i]
       IN  IF ChunkLen(batch.chunk) + add.len + 1 > MessageBudget
           THEN \E ok \in BOOLEAN :
                  batch' = [batch EXCEPT
                      !.out = @ \o <<Sent(RStripLen(batch.chunk), Len(batch.chunk), ok)>>,
                      !.sent = IF ok THEN @ + 1 ELSE @,
                      !.chunk = IF ok /\ batch.sent + 1 < batch.max_messages
                                THEN <<add>> ELSE @,
                      !.i = IF ok /\ batch.sent + 1 < batch.max_messages
                            THEN @ + 1 ELSE @,
                      !.pc = IF ~ok THEN "raised"
                             ELSE IF batch.sent + 1 >= batch.max_messages
                                  THEN "returned" ELSE "loop"]
           ELSE batch' = [batch EXCEPT !.chunk = @ \o <<add>>, !.i = @ + 1]
    /\ UNCHANGED <<schedVars, manualVars, decision, httpIn, httpOut, raceVars, appended, store,
                   req, extraction, checkVars, runVars>>

\* lines 50-51: what is left in the chunk goes out as the last message
SendManyRest ==
    /\ batch.pc = "loop"
    /\ batch.i > Len(batch.lines)
    /\ IF ~IsBlank(batch.chunk) /\ batch.sent < batch.max_messages
       THEN \E ok \in BOOLEAN :
              batch' = [batch EXCEPT
                  !.out = @ \o <<Sent(RStripLen(batch.chunk), Len(batch.chunk), ok)>>,
                  !.pc = IF ok THEN "returned" ELSE "raised"]
       ELSE batch' = [batch EXCEPT !.pc = "returned"]
    /\ UNCHANGED <<schedVars, manualVars, decision, httpIn, httpOut, raceVars, appended, store,
                   req, extraction, checkVars, runVars>>

\* the lines send_many is called with
MaxLines == 3

LineValues ==
    {Line(0, 0), Line(1, 0), Line(1, 1), Line(1899, 0), Line(3798, 0),
     Line(3799, 0), Line(3800, 0), Line(3801, 0)}

LineLists == UNION {[1..n -> LineValues] : n \in 0..MaxLines}

MaxMessagesValues == 0..3

InitBatch ==
    /\ now = 0
    /\ advances = 0
    /\ disk = NoFile
    /\ job = IdleJob
    /\ hist = NoHist
    /\ InitManual
    /\ decision = "pending"
    /\ IdleHttp
    /\ IdleCheck
    /\ IdleRun
    /\ batch \in {SendManyCall(ls, m, h) :
                     ls \in LineLists, m \in MaxMessagesValues, h \in BOOLEAN}
    /\ appended = 0
    /\ IdleRace
    /\ store = Idle
    /\ req = Idle
    /\ extraction = Idle

NextBatch ==
    \/ SendManyHeader
    \/ SendManyLine
    \/ SendManyRest

SpecBatch == InitBatch /\ [][NextBatch]_vars

(***************************************************************************)
(* The run history (results_store.append_run)                              *)
(***************************************************************************)
MaxAppends == 3

\* a run record as append_run meets it: its kind and its "ts"
StampedRun(kind, ts) ==
    [kind |-> kind, ts |-> ts, total_checked |-> 0, failing |-> 0, results |-> <<>>]

\* the history after n runs a second apart, the first at clock 1
RECURSIVE HistoryOf(_)
HistoryOf(n) ==
    IF n = 0 THEN <<>> ELSE AppendRun(HistoryOf(n - 1), StampedRun("scheduled", n))

InitHistory ==
    /\ now \in 0..MAX_CACHED_RUNS
    /\ advances = 0
    /\ disk = NoFile
    /\ job = IdleJob
    /\ hist = NoHist
    /\ InitManual
    /\ decision = "pending"
    /\ IdleHttp
    /\ IdleCheck
    /\ IdleUnit
    /\ caller = "none"
    /\ rpc = "idle"
    /\ gateway = NoGateway
    /\ campaigns = <<>>
    /\ reportRows = <<>>
    /\ activeMap = EmptyMap
    /\ ci = 1
    /\ cur = NoCurrent
    /\ domainCache = EmptyMap
    /\ landingCache = EmptyMap
    /\ results = <<>>
    /\ calls = <<>>
    /\ sends = <<>>
    /\ runs = HistoryOf(now)
    /\ db = <<>>

\* a run ends a second after the one before it and append_run stores its record
AppendRunCall ==
    /\ appended < MaxAppends
    /\ now' = now + 1
    /\ \E kind \in {"scheduled", "manual", "telegram"} :
         runs' = AppendRun(runs, StampedRun(kind, now + 1))
    /\ appended' = appended + 1
    /\ UNCHANGED <<advances, disk, job, hist, manualVars, decision, httpIn, httpOut, raceVars,
                   batch, store, req, extraction, checkVars, caller, rpc, runLocals,
                   sends, db>>

NextHistory == AppendRunCall

SpecHistory == InitHistory /\ [][NextHistory]_vars

(***************************************************************************)
(* Replace-on-write of a persisted file (storage.save_config,              *)
(* results_store.save_results) by threads of one process                   *)
(*                                                                         *)
(* A file is an inode: the sequence of the pieces written to it, each      *)
(* piece named by the writer it came from.  The document of writer w is    *)
(* <<w, w>>; <<0, 0>> is the document an earlier run of the program left.  *)
(* A name (the path, the path + ".tmp") holds an inode or 0 when no file   *)
(* has that name.                                                          *)
(***************************************************************************)
MaxWriters == 2

Writers == 1..MaxWriters

Complete(data) == Len(data) = 2 /\ data[1] = data[2]

\* a hole left by a write beyond the end of the file
Hole == 0 - 1

\* write(piece) at offset k of a file that holds data
WriteAt(data, k, piece) ==
    [i \in 1..(IF k > Len(data) THEN k ELSE Len(data)) |->
        IF i = k THEN piece ELSE IF i <= Len(data) THEN data[i] ELSE Hole]

IdleWriter == [pc |-> "idle", ino |-> 0, off |-> 1]

NothingSeen == [kind |-> "none", data |-> <<>>]

InitStore ==
    /\ InitIdleApp
    /\ IdleHttp
    /\ IdleCheck
    /\ IdleRun
    /\ batch = Idle
    /\ appended = 0
    /\ IdleRace
    /\ req = Idle
    /\ extraction = Idle
    /\ \E old \in BOOLEAN :
         store = [pc |-> "open",
                  inodes |-> IF old THEN <<<<0, 0>>>> ELSE <<>>,
                  path |-> IF old THEN 1 ELSE 0,
                  tmp |-> 0,
                  writers |-> [w \in Writers |-> IdleWriter],
                  seen |-> NothingSeen]

storeRest == <<schedVars, manualVars, decision, httpIn, httpOut, raceVars, batch, appended, req,
               extraction, checkVars, runVars>>

\* open(tmp, "w"): the .tmp file is created, or the one that is there is cut
\* to length 0; the thread holds the inode
SaveOpen(w) ==
    /\ store.pc = "open"
    /\ store.writers[w].pc = "idle"
    /\ LET fresh == store.tmp = 0
           ino == IF fresh THEN Len(store.inodes) + 1 ELSE store.tmp
       IN  store' = [store EXCEPT
               !.inodes = IF fresh THEN Append(@, <<>>) ELSE [@ EXCEPT ![ino] = <<>>],
               !.tmp = ino,
               !.writers[w] = [pc |-> "opened", ino |-> ino, off |-> 1]]
    /\ UNCHANGED storeRest

\* json.dump(doc, f): the buffered text reaches the inode in two writes, the
\* second when the file is closed
SaveWrite(w) ==
    /\ store.pc = "open"
    /\ store.writers[w].pc \in {"opened", "half"}
    /\ LET wr == store.writers[w]
       IN  store' = [store EXCEPT
               !.inodes[wr.ino] = WriteAt(@, wr.off, w),
               !.writers[w] = [pc |-> IF wr.pc = "opened" THEN "half" ELSE "written",
                               ino |-> wr.ino, off |-> wr.off + 1]]
    /\ UNCHANGED storeRest

\* os.replace(tmp, path): the name of the .tmp file becomes the path;
\* FileNotFoundError when no file has the .tmp name
SaveReplace(w) ==
    /\ store.pc = "open"
    /\ store.writers[w].pc = "written"
    /\ IF store.tmp = 0
       THEN store' = [store EXCEPT !.writers[w].pc = "failed"]
       ELSE store' = [store EXCEPT !.path = store.tmp, !.tmp = 0,
                                   !.writers[w].pc = "done"]
    /\ UNCHANGED storeRest

\* load_config / load_results: the default when no file has the path, else
\* json.load of what the file holds now
LoadFile ==
    /\ store.pc = "open"
    /\ store' = [store EXCEPT
           !.seen = IF store.path = 0 THEN [kind |-> "default", data |-> <<>>]
                    ELSE [kind |-> "file", data |-> store.inodes[store.path]]]
    /\ UNCHANGED storeRest

NextStore ==
    \/ \E w \in Writers : SaveOpen(w)
    \/ \E w \in Writers : SaveWrite(w)
    \/ \E w \in Writers : SaveReplace(w)
    \/ LoadFile

SpecStore == InitStore /\ [][NextStore]_vars

(***************************************************************************)
(* The gateway client's request loop (RedTrackClient._get)                 *)
(***************************************************************************)
\* what client.get returns: the status code and what r.json() makes of the
\* body: "nonjson" (r.json() raises), "null" (JSON null), "error" (a mapping
\* with a truthy "error"), "data" (any other JSON)
Reply(status, body) == [status |-> status, body |-> body]

\* an httpx exception out of client.get: no status, no body
TransportError == Reply(0, "raised")

ReplyValues ==
    {Reply(st, b) : st \in {200, 302, 400, 404, 500, 503},
                    b \in {"nonjson", "null", "error", "data"}}
    \cup {TransportError}

\* _get(path, retries=retries) called by a client with or without an api key
GetCall(has_key, retries) ==
    [pc |-> "start", has_key |-> has_key, retries |-> retries, attempt |-> 0,
     log |-> <<>>, out |-> None]

\* lines 49-50: without an api key no request is made
GetStart ==
    /\ req.pc = "start"
    /\ req' = [req EXCEPT !.pc = IF req.has_key THEN "loop" ELSE "failed"]
    /\ UNCHANGED <<schedVars, manualVars, decision, httpIn, httpOut, raceVars, batch, appended,
                   store, extraction, checkVars, runVars>>

\* what one turn of the loop does with reply r: "return", "continue" or
\* "break"; retry4xx widens the retry to every status from 400 up
GetTurn(r, tries, retries, retry4xx) ==
    IF r.body \in {"nonjson", "null"} THEN "break"
    ELSE IF r.body = "error" /\ r.status < 500 THEN "break"
    ELSE IF r.status < 400 /\ r.body # "error" THEN "return"
    ELSE IF (IF retry4xx THEN r.status >= 400 ELSE r.status >= 500 /\ r.status < 600)
            /\ tries < retries
         THEN "continue" ELSE "break"

\* GetAttempt with a fault: every status from 400 up is retried
GetAttemptRetries4xx ==
    /\ req.pc = "loop"
    /\ \E r \in ReplyValues :
         LET turn == IF r = TransportError THEN "raise"
                     ELSE GetTurn(r, req.attempt, req.retries, TRUE)
         IN  req' = [req EXCEPT
                 !.log = Append(@, r),
                 !.attempt = IF turn = "continue" THEN @ + 1 ELSE @,
                 !.out = IF turn = "return" THEN Some(r) ELSE @,
                 !.pc = CASE turn = "return" -> "returned"
                          [] turn = "continue" -> "loop"
                          [] turn = "break" -> "failed"
                          [] OTHER -> "raised"]
    /\ UNCHANGED <<schedVars, manualVars, decision, httpIn, httpOut, raceVars, batch, appended,
                   store, extraction, checkVars, runVars>>

\* lines 57-93, one turn of "for attempt in range(retries + 1)": the request
\* is made and its reply returned, retried, or turned into a RedTrackError
\* ("failed"); an exception of client.get leaves _get as it is ("raised")
GetAttempt ==
    /\ req.pc = "loop"
    /\ \E r \in ReplyValues :
         LET turn == IF r = TransportError THEN "raise"
                     ELSE GetTurn(r, req.attempt, req.retries, FALSE)
         IN  req' = [req EXCEPT
                 !.log = Append(@, r),
                 !.attempt = IF turn = "continue" THEN @ + 1 ELSE @,
                 !.out = IF turn = "return" THEN Some(r) ELSE @,
                 !.pc = CASE turn = "return" -> "returned"
                          [] turn = "continue" -> "loop"
                          [] turn = "break" -> "failed"
                          [] OTHER -> "raised"]
    /\ UNCHANGED <<schedVars, manualVars, decision, httpIn, httpOut, raceVars, batch, appended,
                   store, extraction, checkVars, runVars>>

MaxRetries == 3

InitGet ==
    /\ InitIdleApp
    /\ IdleHttp
    /\ IdleCheck
    /\ IdleRun
    /\ batch = Idle
    /\ appended = 0
    /\ IdleRace
    /\ store = Idle
    /\ extraction = Idle
    /\ req \in {GetCall(k, n) : k \in BOOLEAN, n \in 0..MaxRetries}

NextGet ==
    \/ GetStart
    \/ GetAttempt

SpecGet == InitGet /\ [][NextGet]_vars

(***************************************************************************)
(* The candidate extractor (checker.extract_urls_from_campaign)            *)
(*                                                                         *)
(* A JSON value below "streams" is known by its type tag: "absent" (the    *)
(* key is missing), "null", "empty" (0, "", [] or {}: not None but falsy), *)
(* "num" and "str" (truthy scalars), "dict", "list"; a list carries its    *)
(* items, a mapping the values of the keys the extractor reads.            *)
(***************************************************************************)
Falsy(v) == v.t \in {"absent", "null", "empty"}

\* an element of "landings" or "prelandings"; id is the value of l.get("id")
LandingV(t, id) == [t |-> t, id |-> id]

\* the value of "streams", "landings" or "prelandings"
ListV(t, items) == [t |-> t, items |-> items]

\* the value of "stream" in an element of "streams"
StreamV(t, landings, prelandings) ==
    [t |-> t, landings |-> landings, prelandings |-> prelandings]

\* an element of "streams"
EntryV(t, stream) == [t |-> t, stream |-> stream]

\* the campaign document: the keys the extractor reads
CampaignDoc(trackback_url, domain_id, streams) ==
    [trackback_url |-> trackback_url, domain_id |-> domain_id, streams |-> streams]

\* _pick_str over one key: a string that is not blank, stripped
PickStr(v) ==
    IF v.t = "str" /\ Strip(v.s) # <<>> THEN Some(Strip(v.s)) ELSE None

\* "if lid:" for a scalar id
TruthyId(id) == (id.t = "num" /\ id.n # 0) \/ (id.t = "str" /\ id.s # <<>>)

\* the outcome of a loop: the ids collected, or an exception
Ids(set) == [raised |-> FALSE, ids |-> set]

RaisedIds == [raised |-> TRUE, ids |-> {}]

\* "for l in (v or []): lid = (l or {}).get('id'); if lid: add(str(lid))".
\* A truthy number is not iterable (TypeError); the items of a string or of
\* a mapping are strings, and so is a scalar item of a list: none has .get
\* (AttributeError).
RECURSIVE AddLandingIds(_, _, _)
AddLandingIds(items, i, acc) ==
    IF i > Len(items) THEN Ids(acc)
    ELSE LET l == items[i]
         IN  IF Falsy(l) THEN AddLandingIds(items, i + 1, acc)
             ELSE IF l.t # "dict" THEN RaisedIds
             ELSE AddLandingIds(items, i + 1,
                                IF TruthyId(l.id) THEN acc \cup {PyStr(l.id)} ELSE acc)

LandingIdsOf(v, acc) ==
    IF Falsy(v) THEN Ids(acc)
    ELSE IF v.t = "list" THEN AddLandingIds(v.items, 1, acc)
    ELSE RaisedIds

\* lines 101-110, the body of "for cs in ...": stream = (cs or {}).get("stream")
\* or {}, then the landings and the prelandings of the stream
StreamIds(cs, acc) ==
    IF Falsy(cs) THEN Ids(acc)
    ELSE IF cs.t # "dict" THEN RaisedIds
    ELSE IF Falsy(cs.stream) THEN Ids(acc)
    ELSE IF cs.stream.t # "dict" THEN RaisedIds
    ELSE LET a == LandingIdsOf(cs.stream.landings, acc)
         IN  IF a.raised THEN RaisedIds
             ELSE LandingIdsOf(cs.stream.prelandings, a.ids)

RECURSIVE AddStreamIds(_, _, _)
AddStreamIds(entries, i, acc) ==
    IF i > Len(entries) THEN Ids(acc)
    ELSE LET a == StreamIds(entries[i], acc)
         IN  IF a.raised THEN RaisedIds
             ELSE AddStreamIds(entries, i + 1, a.ids)

\* the characters of the ids, in code point order
Alphabet == Digits \o <<"a", "b">>

Rank(c) == CHOOSE i \in 1..Len(Alphabet) : Alphabet[i] = c

\* a < b for Python strings
RECURSIVE LexLess(_, _)
LexLess(a, b) ==
    IF b = <<>> THEN FALSE
    ELSE IF a = <<>> THEN TRUE
    ELSE IF Head(a) = Head(b) THEN LexLess(Tail(a), Tail(b))
    ELSE Rank(Head(a)) < Rank(Head(b))

\* Sorted with a fault: the greatest string comes first
RECURSIVE SortedDescending(_)
SortedDescending(set) ==
    IF set = {} THEN <<>>
    ELSE LET most == CHOOSE x \in set : \A y \in set \ {x} : LexLess(y, x)
         IN  <<most>> \o SortedDescending(set \ {most})

\* sorted(set)
RECURSIVE Sorted(_)
Sorted(set) ==
    IF set = {} THEN <<>>
    ELSE LET least == CHOOSE x \in set : \A y \in set \ {x} : LexLess(x, y)
         IN  <<least>> \o Sorted(set \ {least})

\* the outcome of extract_urls_from_campaign
Extracted(raised, tracking_url, domain_id, landing_ids) ==
    [raised |-> raised, tracking_url |-> tracking_url, domain_id |-> domain_id,
     landing_ids |-> landing_ids]

\* extract_urls_from_campaign(c), lines 97-116
ExtractUrlsFromCampaign(c) ==
    LET streams == c.streams
        a == IF Falsy(streams) THEN Ids({})
             ELSE IF streams.t = "list" THEN AddStreamIds(streams.items, 1, {})
             ELSE RaisedIds
    IN  IF a.raised THEN Extracted(TRUE, None, None, <<>>)
        ELSE Extracted(FALSE, PickStr(c.trackback_url), PickStr(c.domain_id),
                       Sorted(a.ids))

\* run_full_check line 196: meta = extract_urls_from_campaign(full)
CallExtract ==
    /\ extraction.pc = "call"
    /\ extraction' = [extraction EXCEPT
           !.pc = "done", !.out = ExtractUrlsFromCampaign(extraction.doc)]
    /\ UNCHANGED <<schedVars, manualVars, decision, httpIn, httpOut, raceVars, batch, appended,
                   store, req, checkVars, runVars>>

MaxStreams == 2

Absent == ListV("absent", <<>>)

\* elements of a landings list: null, mappings with all kinds of id, a string
LandingValues ==
    {LandingV("null", JNull), LandingV("str", JNull)}
    \cup {LandingV("dict", id) :
            id \in {JNull, JNum(0), JNum(7), JStr(<<>>), JStr(<<"7">>),
                    JStr(<<"1", "2">>), JStr(<<"a", "b">>)}}

\* values of "landings": not a list, lists of one element, and lists with a
\* repeated id and with ids out of order
LandingsValues ==
    {ListV(t, <<>>) : t \in {"absent", "null", "empty", "num", "dict"}}
    \cup {ListV("list", <<l>>) : l \in LandingValues}
    \cup {ListV("list", <<LandingV("dict", JNum(7)), LandingV("dict", JStr(<<"7">>))>>),
          ListV("list", <<LandingV("dict", JStr(<<"a", "b">>)),
                          LandingV("dict", JStr(<<"1", "2">>))>>)}

PrelandingsValues == {Absent, ListV("list", <<LandingV("dict", JNum(3))>>)}

StreamValues ==
    {StreamV("dict", l, pl) : l \in LandingsValues, pl \in PrelandingsValues}
    \cup {StreamV(t, Absent, Absent) : t \in {"absent", "null", "list", "str"}}

EntryValues ==
    {EntryV("dict", st) : st \in StreamValues}
    \cup {EntryV(t, StreamV("absent", Absent, Absent)) : t \in {"null", "str", "list"}}

StreamsValues ==
    {ListV(t, <<>>) : t \in {"absent", "null", "empty", "num", "str", "dict"}}
    \cup {ListV("list", es) : es \in UNION {[1..n -> EntryValues] : n \in 1..MaxStreams}}

CampaignDocs ==
    {CampaignDoc(u, JStr(<<"1">>), st) :
        u \in {JNull, JStr(<<" ", "u", " ">>)}, st \in StreamsValues}

InitExtract ==
    /\ InitIdleApp
    /\ IdleHttp
    /\ IdleCheck
    /\ IdleRun
    /\ batch = Idle
    /\ appended = 0
    /\ IdleRace
    /\ store = Idle
    /\ req = Idle
    /\ extraction \in {[pc |-> "call", doc |-> d, out |-> Extracted(FALSE, None, None, <<>>)] :
                          d \in CampaignDocs}

NextExtract == CallExtract

SpecExtract == InitExtract /\ [][NextExtract]_vars

(***************************************************************************)
(* The dashboard's config update (web.update_config), which runs in a      *)
(* request thread beside the scheduler's tick                              *)
(***************************************************************************)
\* the schedule fields of a POST /config
ConfigForm(mode, hhmm, interval) ==
    [schedule_mode |-> mode, run_at_hhmm |-> hhmm, interval_minutes |-> interval]

Forms ==
    {ConfigForm(m, h, 0) : m \in {"", "daily_at"}, h \in {<<>>, HHMM0000}}

\* update_config lines 143-145: the form's fields are set on the loaded cfg;
\* every other field of cfg stays as it was loaded
UpdatedConfig(cfg, form) ==
    [cfg EXCEPT
       !.schedule_mode = IF form.schedule_mode = "" THEN "interval"
                         ELSE form.schedule_mode,
       !.run_at_hhmm = Strip(IF form.run_at_hhmm = <<>> THEN HHMM1700
                             ELSE form.run_at_hhmm),
       !.interval_minutes = IF form.interval_minutes < 1 THEN 1
                            ELSE form.interval_minutes]

updateRest ==
    <<manualVars, decision, httpIn, httpOut, batch, appended, store, req, extraction,
      appenders, checkVars, runVars>>

\* update_config line 142: cfg = load_config()
UpdateConfigLoad ==
    /\ editor.pc # "loaded"
    /\ editor' = [pc |-> "loaded", cfg |-> LoadConfig(disk)]
    /\ UNCHANGED <<schedVars, updateRest>>

\* update_config lines 143-151: the form is applied and the cfg is saved
UpdateConfigSave ==
    /\ editor.pc = "loaded"
    /\ \E form \in Forms :
         /\ editor' = [pc |-> "done", cfg |-> UpdatedConfig(editor.cfg, form)]
         /\ disk' = File(editor'.cfg)
    /\ UNCHANGED <<now, advances, job, hist, updateRest>>

\* the scheduler's tick and POST /config requests, one request at a time
NextUpdate ==
    \/ Wait
    \/ JobTick
    \/ JobStamp
    \/ JobSave
    \/ JobRunStart
    \/ JobRunEnd
    \/ UpdateConfigLoad
    \/ UpdateConfigSave

SpecUpdate == Init /\ [][NextUpdate]_vars

(***************************************************************************)
(* Threads in results_store.append_run at the same time: a scheduled run   *)
(* (scheduler._job) and manual runs (web._run_once, the chat command) each *)
(* call it from their own thread, with no lock around it                   *)
(***************************************************************************)
appendRest ==
    <<advances, disk, job, hist, manualVars, decision, httpIn, httpOut, batch, store,
      req, extraction, editor, checkVars, caller, rpc, runLocals, sends, db>>

\* thread 1 is the scheduler's, which runs one tick at a time; the others
\* are threads of manual runs
KindsOf(w) == IF w = 1 THEN {"scheduled"} ELSE {"manual", "telegram"}

\* append_run line 27, in thread w: doc = load_results(); the run to store
\* ended just now
AppendLoad(w) ==
    /\ appenders[w].pc = "idle"
    /\ now' = now + 1
    /\ \E kind \in KindsOf(w) :
         appenders' = [appenders EXCEPT
                         ![w] = [pc |-> "loaded", run |-> StampedRun(kind, now + 1),
                                 doc |-> runs]]
    /\ appended' = appended + 1
    /\ UNCHANGED <<runs, appendRest>>

\* append_run lines 28-35, in thread w: the run is put first in the list
\* that was loaded, the list is cut and saved
AppendSave(w) ==
    /\ appenders[w].pc = "loaded"
    /\ runs' = AppendRun(appenders[w].doc, appenders[w].run)
    /\ appenders' = [appenders EXCEPT ![w].pc = "done"]
    /\ UNCHANGED <<now, appended, appendRest>>

InitAppend ==
    /\ now \in 0..MAX_CACHED_RUNS
    /\ advances = 0
    /\ disk = NoFile
    /\ job = IdleJob
    /\ hist = NoHist
    /\ InitManual
    /\ decision = "pending"
    /\ IdleHttp
    /\ IdleCheck
    /\ batch = Idle
    /\ appended = 0
    /\ store = Idle
    /\ req = Idle
    /\ extraction = Idle
    /\ editor = Idle
    /\ appenders = [w \in Writers |-> Idle]
    /\ caller = "none"
    /\ rpc = "idle"
    /\ gateway = NoGateway
    /\ campaigns = <<>>
    /\ reportRows = <<>>
    /\ activeMap = EmptyMap
    /\ ci = 1
    /\ cur = NoCurrent
    /\ domainCache = EmptyMap
    /\ landingCache = EmptyMap
    /\ results = <<>>
    /\ calls = <<>>
    /\ sends = <<>>
    /\ runs = HistoryOf(now)
    /\ db = <<>>

NextAppend ==
    \/ \E w \in Writers : AppendLoad(w)
    \/ \E w \in Writers : AppendSave(w)

SpecAppend == InitAppend /\ [][NextAppend]_vars

\* run_at_hhmm values that are not a time of day
MalformedHHMM ==
    {<<>>, <<"a", "b", "c">>, <<"1", "7">>, <<"1", ":", "2", ":", "3">>,
     <<"2", "5", ":", "0", "0">>, <<"1", "7", ":", "6", "0">>}

\* C27: in daily_at mode, for every malformed run_at_hhmm (empty, not of the
\* form HH:MM, non-numeric parts, hour or minute out of range) should_run_now
\* does not raise and decides as if the trigger time were 17:00.
C27_MalformedFallsBack ==
    LET cfg == LoadConfig(disk)
    IN  (/\ decision # "pending"
         /\ ModeOf(cfg) = "daily_at"
         /\ cfg.run_at_hhmm \in MalformedHHMM)
        => /\ decision \in {"due", "not_due"}
           /\ decision = "due" <=>
                  /\ cfg.last_run_local_date # Some(LocalDate(now))
                  /\ SecOfDay(now) >= 17 * 3600

(***************************************************************************)
(* Claims about the callers of a run                                       *)
(***************************************************************************)
\* a Campaign Result that is not ok: it has no checks, or a check that failed
NotOk(r) == r.checks = <<>> \/ \E k \in 1..Len(r.checks) : ~r.checks[k].ok

\* C17: a Campaign Result with an empty checks list counts as not ok: the
\* failing count of every run record counts the results without checks along
\* with those that have a failed check, and run_check.main stores ok = false
\* for a result without checks.
C17_EmptyChecksNotOk ==
    /\ \A i \in 1..Len(runs) :
           runs[i].failing =
               Cardinality({j \in 1..Len(runs[i].results) : NotOk(runs[i].results[j])})
    /\ \A j \in 1..Len(db) : db[j].ok => ~NotOk(results[j])

\* no check of any Campaign Result of the run failed
NoFailingCheck ==
    \A j \in 1..Len(results) : \A k \in 1..Len(results[j].checks) :
        results[j].checks[k].ok

\* C18: operators are alerted only about failures: after a run that returned
\* without a failing check no message has been sent, whichever path (scheduled
\* tick, dashboard run, chat run, command line) executed the run.
C18_NoMessageWithoutFailure ==
    (rpc = "reported" /\ NoFailingCheck) => sends = <<>>

\* what the callers do after a run that returned without a failing check: a
\* scheduled run and a dashboard run have sent nothing, and no caller has
\* sent the alert with the failing campaigns; the chat run has sent its
\* "starting" and "complete" messages and the command line its summary
AlertOnlyOnFailure ==
    (rpc = "reported" /\ NoFailingCheck) =>
        /\ caller \in {"scheduled", "web"} => sends = <<>>
        /\ \A i \in 1..Len(sends) : sends[i].text # "alert"
        /\ caller = "telegram" =>
               /\ Len(sends) >= 2
               /\ sends[1] = Send("starting", TRUE)
               /\ sends[2].text = "complete"
        /\ caller = "cli" => Len(sends) = 1 /\ sends[1].text = "summary"

\* a scheduled run that checked a campaign, found it healthy and sent nothing
QuietScheduledRun ==
    /\ caller = "scheduled"
    /\ rpc = "reported"
    /\ Len(results) = 1
    /\ results[1].checks # <<>>
    /\ NoFailingCheck
    /\ sends = <<>>
    /\ Len(runs) = 1

\* the scheduled run stopped at list_active_campaigns or report_by_campaign
MandatoryCallFailed ==
    /\ caller = "scheduled"
    /\ calls # <<>>
    /\ ~calls[Len(calls)].ok
    /\ calls[Len(calls)].op \in {"list_active_campaigns", "report_by_campaign"}

\* t lies in the interval (interval mode) or on the local day (daily_at mode)
\* in which the last scheduled run was triggered
SamePeriod(t) ==
    IF ModeOf(LoadConfig(disk)) = "interval"
    THEN t - hist.last[1] < LoadConfig(disk).interval_minutes * 60
    ELSE LocalDate(t) = LocalDate(hist.last[1])

\* C19: when list_active_campaigns or report_by_campaign raises in a scheduled
\* run, no campaign is fetched or checked, _job calls send_message exactly
\* once, with the failure message, and no tick in the same interval or on the
\* same local day is judged due.
C19_MandatoryFailureReportedOnce ==
    MandatoryCallFailed =>
        /\ rpc \in {"raised", "failed"}
        /\ results = <<>>
        /\ CallsOf("get_campaign") = <<>>
        /\ targets = <<>> /\ checks = <<>> /\ attempt = 0 /\ dnsCalls = 0
        /\ rpc = "raised" => sends = <<>>
        /\ rpc = "failed" =>
               /\ Len(sends) = 1
               /\ sends[1].text = "job_failed"
               /\ SamePeriod(now) => ShouldRunNow(LoadConfig(disk), now) = "not_due"
               /\ job.pc # "idle" => ~SamePeriod(job.decided)

\* 59 seconds after the tick of a one-minute interval whose run stopped at
\* list_active_campaigns: one failure message, and a tick now is not due
C19_Witness ==
    /\ MandatoryCallFailed
    /\ rpc = "failed"
    /\ calls = <<Call("list_active_campaigns", <<>>, FALSE)>>
    /\ sends = <<Send("job_failed", TRUE)>>
    /\ ModeOf(LoadConfig(disk)) = "interval"
    /\ LoadConfig(disk).interval_minutes = 1
    /\ now - hist.last[1] = 59
    /\ job.pc = "idle"

\* C20: a send_message call that raises is not fatal to the run of a scheduled
\* tick, a dashboard run or a chat run: when no gateway call failed, the check
\* pass has been made and its run record appended.
C20_SendFailureNonFatal ==
    (/\ caller \in {"scheduled", "web", "telegram"}
     /\ rpc \in {"reported", "failed"}
     /\ \E i \in 1..Len(sends) : ~sends[i].ok
     /\ \A i \in 1..Len(calls) : calls[i].ok)
    => /\ rpc = "reported"
       /\ calls # <<>>
       /\ Len(runs) = 1

(***************************************************************************)
(* Claims about the notification batcher                                   *)
(***************************************************************************)
\* the messages a greedy packing of the lines makes when nothing caps their
\* number: one per flush, and one for a rest that is not blank
RECURSIVE MessagesNeeded(_, _)
MessagesNeeded(lines, chunk) ==
    IF lines = <<>> THEN (IF IsBlank(chunk) THEN 0 ELSE 1)
    ELSE IF ChunkLen(chunk) + Head(lines).len + 1 > MessageBudget
         THEN 1 + MessagesNeeded(Tail(lines), <<Head(lines)>>)
         ELSE MessagesNeeded(Tail(lines), chunk \o <<Head(lines)>>)

\* C21: for every list of lines and every max_messages >= 1 send_many sends
\* at most max_messages messages (the header counted); when the lines need
\* more it sends exactly max_messages and returns without raising, the
\* remaining lines dropped.
C21_AtMostMaxMessages ==
    LET max == IF batch.pc = "header" THEN batch.max_messages
               ELSE batch.max_messages + (IF batch.header THEN 1 ELSE 0)
        hdr == IF batch.header THEN 1 ELSE 0
        allOk == \A k \in 1..Len(batch.out) : batch.out[k].ok
    IN  (batch.pc # "idle" /\ max >= 1) =>
            /\ Len(batch.out) <= max
            /\ (batch.pc = "raised") <=> ~allOk
            /\ (batch.pc = "returned" /\ allOk) =>
                   LET needed == hdr + MessagesNeeded(batch.lines, <<>>)
                   IN  Len(batch.out) = IF needed > max THEN max ELSE needed

\* two messages allowed, three lines that each fill a message: two messages
\* sent, the third line dropped, send_many returned
C21_Witness ==
    /\ batch.pc = "returned"
    /\ ~batch.header
    /\ batch.max_messages = 2
    /\ batch.lines = <<Line(3799, 0), Line(3799, 0), Line(3799, 0)>>
    /\ Len(batch.out) = 2
    /\ \A k \in 1..2 : batch.out[k].ok /\ batch.out[k].lines = 1
    /\ batch.i = 3

\* C22: every message send_many sends is within the per-message budget of
\* 3800 characters, whatever the lengths of the lines.
C22_MessagesWithinBudget ==
    batch.pc # "idle" =>
        \A k \in 1..Len(batch.out) : batch.out[k].len <= MessageBudget

(***************************************************************************)
(* Claims about the persisted files                                        *)
(***************************************************************************)
\* C23: after any sequence of append_run calls the history holds at most
\* MAX_CACHED_RUNS records, the record appended last is at index 0, the
\* records are ordered most recent first, and only the oldest are evicted.
C23_HistoryBounded ==
    /\ Len(runs) <= MAX_CACHED_RUNS
    /\ appended > 0 => runs # <<>> /\ runs[1].ts = now
    /\ \A i \in 1..(Len(runs) - 1) : runs[i].ts = runs[i + 1].ts + 1
    /\ Len(runs) = IF now > MAX_CACHED_RUNS THEN MAX_CACHED_RUNS ELSE now

\* a full history after two more runs: the two oldest records are gone
C23_Witness ==
    /\ appended = 2
    /\ Len(runs) = MAX_CACHED_RUNS
    /\ runs[1].ts = MAX_CACHED_RUNS + 2
    /\ runs[MAX_CACHED_RUNS].ts = 3

\* C24: a reader of a persisted file that runs concurrently with writers only
\* ever observes a complete document written by one writer, or the default
\* of an absent file, and no writer fails because of another.
C24_ReadersSeeCompleteDocuments ==
    store.pc = "open" =>
        /\ store.seen.kind = "file" => Complete(store.seen.data)
        /\ \A w \in Writers : store.writers[w].pc # "failed"

(***************************************************************************)
(* Claims about the gateway client                                         *)
(***************************************************************************)
Is5xx(r) == r.status >= 500 /\ r.status < 600

Is4xx(r) == r.status >= 400 /\ r.status < 500

\* C25: every gateway call retries on a 5xx response: after a 5xx reply the
\* request is issued again until a success reply or until the retries extra
\* attempts are used up, a call issues at most retries + 1 requests, and a
\* call that returns returns the data of a success reply.
C25_RetriesOn5xx ==
    req.pc \in {"loop", "returned", "failed", "raised"} =>
        /\ Len(req.log) <= req.retries + 1
        /\ \A k \in 1..Len(req.log) :
               (Is5xx(req.log[k]) /\ k <= req.retries) =>
                   (k < Len(req.log) \/ req.pc = "loop")
        /\ req.pc = "returned" =>
               /\ req.log[Len(req.log)].status < 400
               /\ req.out = Some(req.log[Len(req.log)])

\* C26: a 4xx reply is never retried: it is the last reply of the call, the
\* call fails with a RedTrackError, and a call whose first reply is a 4xx
\* has issued exactly one request.
C26_NoRetryOn4xx ==
    req.pc \in {"loop", "returned", "failed", "raised"} =>
        \A k \in 1..Len(req.log) :
            Is4xx(req.log[k]) => k = Len(req.log) /\ req.pc = "failed"

\* a 404 with a plain JSON body, three retries allowed: one request, failed
C26_Witness ==
    /\ req.pc = "failed"
    /\ req.retries = 3
    /\ req.log = <<Reply(404, "data")>>

(***************************************************************************)
(* Claims about the candidate extractor                                    *)
(***************************************************************************)
\* C28: the extractor never raises on a campaign document with missing or
\* differently-typed fields: streams absent, null or not a list, a stream
\* entry, landings or prelandings that is null, a scalar or a mapping.
C28_ExtractorNeverRaises ==
    extraction.pc = "done" => ~extraction.out.raised

\* the elements of a landings or prelandings value that is a list
ItemsOf(v) == IF v.t = "list" THEN {v.items[i] : i \in 1..Len(v.items)} ELSE {}

\* the ids found in the landings and prelandings of every stream of the
\* document, as strings
IdsFound(c) ==
    UNION {{PyStr(l.id) : l \in {x \in ItemsOf(e.stream.landings)
                                      \cup ItemsOf(e.stream.prelandings) :
                                    x.t = "dict" /\ TruthyId(x.id)}} :
           e \in {y \in ItemsOf(c.streams) : y.t = "dict" /\ y.stream.t = "dict"}}

Reversed(seq) == [i \in 1..Len(seq) |-> seq[Len(seq) + 1 - i]]

ReversedList(v) == IF v.t = "list" THEN ListV("list", Reversed(v.items)) ELSE v

\* the document with its streams and the landings of every stream in the
\* opposite order
ReversedDoc(c) ==
    [c EXCEPT !.streams =
        IF @.t # "list" THEN @
        ELSE ListV("list",
                   Reversed([i \in 1..Len(@.items) |->
                       IF @.items[i].t = "dict" /\ @.items[i].stream.t = "dict"
                       THEN EntryV("dict",
                                StreamV("dict",
                                        ReversedList(@.items[i].stream.landings),
                                        ReversedList(@.items[i].stream.prelandings)))
                       ELSE @.items[i]]))]

\* C29: when the extractor returns, landings_ids holds each id found in the
\* landings and prelandings of the streams once, in sorted order, and the
\* same sequence comes out for the same document and for the document with
\* its streams and landings in another order.
C29_LandingIdsSortedUnion ==
    (extraction.pc = "done" /\ ~extraction.out.raised) =>
        LET ids == extraction.out.landing_ids
        IN  /\ {ids[i] : i \in 1..Len(ids)} = IdsFound(extraction.doc)
            /\ \A i \in 1..(Len(ids) - 1) : LexLess(ids[i], ids[i + 1])
            /\ ExtractUrlsFromCampaign(extraction.doc).landing_ids = ids
            /\ ExtractUrlsFromCampaign(ReversedDoc(extraction.doc)).landing_ids = ids

\* two streams: ids "ab" and "12" out of order in one, 7 and "7" in the
\* other, 3 in both prelandings: four ids, each once, in string order
C29_Witness ==
    /\ extraction.pc = "done"
    /\ ~extraction.out.raised
    /\ extraction.doc.streams.t = "list"
    /\ Len(extraction.doc.streams.items) = 2
    /\ extraction.doc.streams.items[1].stream.landings =
           ListV("list", <<LandingV("dict", JStr(<<"a", "b">>)),
                           LandingV("dict", JStr(<<"1", "2">>))>>)
    /\ extraction.doc.streams.items[2].stream.landings =
           ListV("list", <<LandingV("dict", JNum(7)), LandingV("dict", JStr(<<"7">>))>>)
    /\ extraction.out.landing_ids = <<<<"1", "2">>, <<"3">>, <<"7">>, <<"a", "b">>>>

(***************************************************************************)
(* Claims about the order of a campaign's checks                           *)
(***************************************************************************)
\* the host the run resolved for the campaign's domain_id, None when the
\* campaign has no domain_id or the lookup gave no name
ResolvedDomain(c) ==
    IF c.domain_id # None /\ c.domain_id[1] \in DOMAIN domainCache
    THEN domainCache[c.domain_id[1]] ELSE None

\* the URLs the run resolved for the landing ids, in the order of the ids
RECURSIVE ResolvedLandings(_)
ResolvedLandings(ids) ==
    IF ids = <<>> THEN <<>>
    ELSE (IF Head(ids) \in DOMAIN landingCache THEN landingCache[Head(ids)] ELSE <<>>)
         \o ResolvedLandings(Tail(ids))

\* C30: the checks list of every Campaign Result has one entry per check
\* target, in target order: the tracking URL first when the campaign has
\* one, then the https:// and the http:// variant of the resolved domain,
\* then one entry per resolved landing URL in landing_ids order, each entry
\* of the kind of its target.
C30_ChecksInTargetOrder ==
    \A j \in 1..Len(results) :
        LET c == Retained[j]
            cks == results[j].checks
            t == IF c.tracking_url # None THEN 1 ELSE 0
            dom == ResolvedDomain(c)
            d == IF dom # None THEN 2 ELSE 0
            ls == ResolvedLandings(c.landing_ids)
        IN  /\ Len(cks) = t + d + Len(ls)
            /\ t = 1 => /\ cks[1].kind = "tracking"
                        /\ cks[1].tested_url = Some(c.tracking_url[1])
            /\ d = 2 => /\ cks[t + 1].kind = "domain_https"
                        /\ cks[t + 1].tested_url = Some(Url("https", dom[1]))
                        /\ cks[t + 2].kind = "domain_http"
                        /\ cks[t + 2].tested_url = Some(Url("http", dom[1]))
            /\ \A i \in 1..Len(ls) :
                   /\ cks[t + d + i].kind = "landing"
                   /\ cks[t + d + i].tested_url = Some(ls[i])

\* a campaign with a tracking URL, a resolved domain and a resolved landing:
\* four entries, the tracking URL first and the landing last
C30_Witness ==
    /\ rpc = "returned"
    /\ Len(results) = 1
    /\ Len(results[1].checks) = 4
    /\ results[1].checks[1].kind = "tracking"
    /\ results[1].checks[2].kind = "domain_https"
    /\ results[1].checks[3].kind = "domain_http"
    /\ results[1].checks[4].kind = "landing"
    /\ ~results[1].checks[2].ok

(***************************************************************************)
(* Claims about http_check when the GET raises                             *)
(***************************************************************************)
\* C31: when the GET raises, http_check returns a failure and does not
\* raise: httpx.TimeoutException gives failure_type "timeout", any other
\* httpx.RequestError "http", any other exception "other"; ok is false and
\* http_status is unset in each case.
C31_ExceptionsBecomeFailures ==
    (httpOut # None /\ httpIn.kind # "response") =>
        LET r == httpOut[1]
        IN  /\ ~r.ok
            /\ r.http_status = None
            /\ r.tested_url = Some(TrackingUrl)
            /\ httpIn.kind = "timeout" => r.failure_type = "timeout"
            /\ httpIn.kind = "request_error" => r.failure_type = "http"
            /\ httpIn.kind = "exception" => r.failure_type = "other"

\* the GET timed out and http_check returned a "timeout" failure
C31_Witness ==
    /\ httpIn = Raised("timeout")
    /\ httpOut # None
    /\ ~httpOut[1].ok
    /\ httpOut[1].failure_type = "timeout"
    /\ httpOut[1].http_status = None

(***************************************************************************)
(* Claims about the bookkeeping of a due tick                              *)
(***************************************************************************)
\* C34: the last_run_local_date a due tick persists is the local date on
\* which should_run_now returned true: a run triggered on local date D never
\* records D+1, also when the tick straddles local midnight.
\* Stated for daily_at ticks that took at most a second from the decision on.
C34_BookkeepingAtDecision ==
    (/\ job.pc \in {"saved", "running"}
     /\ ModeOf(job.cfg) = "daily_at"
     /\ now - job.decided <= 1)
    => LoadConfig(disk).last_run_local_date = Some(LocalDate(job.decided))

\* C32: a dashboard config update never changes the last-run bookkeeping:
\* however update_config interleaves with a due tick, once the update has
\* saved and the tick has saved, the persisted config holds the
\* last_run_epoch and last_run_local_date the tick wrote.
C32_UpdateKeepsBookkeeping ==
    (job.pc \in {"saved", "running"} /\ editor.pc = "done") =>
        /\ LoadConfig(disk).last_run_epoch = job.cfg.last_run_epoch
        /\ LoadConfig(disk).last_run_local_date = job.cfg.last_run_local_date

\* C33: no run record is lost to concurrent appends: when every thread's
\* append_run has returned and the history holds fewer runs than
\* MAX_CACHED_RUNS allows, the record of each thread is in the history.
C33_NoRecordLost ==
    (/\ \A w \in Writers : appenders[w].pc = "done"
     /\ now <= MAX_CACHED_RUNS)
    => \A w \in Writers : \E i \in 1..Len(runs) : runs[i] = appenders[w].run

(***************************************************************************)
(* Claims about the manual runs                                            *)
(***************************************************************************)
\* C35: the manual-run latch is always released: a flag (_is_running,
\* _check_running) is never true with no run of its kind in flight, and
\* after a manual run has ended, by returning or by an exception, both flags
\* are false.
C35_LatchReleased ==
    /\ isRunning => webRunning > 0
    /\ checkRunning => tgRunning > 0
    /\ (caller \in {"web", "telegram"} /\ rpc \in {"reported", "failed"}) =>
           ~isRunning /\ ~checkRunning

\* a chat-triggered run ended in the except branch, the "check failed"
\* message could not be sent either, and the flag is false
C35_Witness ==
    /\ caller = "telegram"
    /\ rpc = "failed"
    /\ sends # <<>>
    /\ sends[Len(sends)] = Send("check_failed", FALSE)
    /\ tgRunning = 0
    /\ ~checkRunning

\* a step of a manual run: of the dashboard's trigger and thread, or of the
\* chat command and its thread
ManualRunStep ==
    \/ <<isRunning, webSpawned, webRunning>>' # <<isRunning, webSpawned, webRunning>>
    \/ <<checkRunning, tgSpawned, tgRunning>>' # <<checkRunning, tgSpawned, tgRunning>>
    \/ caller \in {"web", "telegram"} /\ rpc' # rpc

\* C36: a manual run leaves the persisted config unchanged: no step of a
\* manual run changes the config file, and last_run_epoch and
\* last_run_local_date change only when a tick that was judged due saves.
C36_ManualRunKeepsConfig ==
    [][/\ ManualRunStep => disk' = disk
       /\ LoadConfig(disk') # LoadConfig(disk) =>
              /\ job.pc = "stamped"
              /\ job'.pc = "saved"
              /\ job.cfg.last_run_epoch # None]_vars

\* a dashboard-triggered run has ended, the clock has moved on, and the
\* config still holds the bookkeeping of the scheduled run before it
C36_Witness ==
    /\ caller = "web"
    /\ rpc = "reported"
    /\ webRunning = 0
    /\ now > LocalToEpoch(1, 17 * 3600)
    /\ LoadConfig(disk).last_run_epoch = Some(LocalToEpoch(1, 17 * 3600))
    /\ LoadConfig(disk).last_run_local_date = Some(1)

====
